---- MODULE Spec2Model ----
(***************************************************************************)
(* A model of fch::CurrentsAndHeating<2> (currents_and_heating.cc) and of  *)
(* the parts of fch::PhysicalQuantities (physical_quantities.cc) it calls. *)
(*                                                                         *)
(* Numbers are integers.  Lengths are counted in halves of the matching    *)
(* tolerance eps of set_electric_field_bc(laplace), so that two points can *)
(* be different and still closer than eps.  The abscissae of the property  *)
(* tables are fixed-point numbers whose resolution is the eps of           *)
(* bilinear_interp.                                                        *)
(***************************************************************************)
EXTENDS Integers, Sequences, FiniteSets, TLC

VARIABLES
    \* the data members of CurrentsAndHeating
    time_step,
    uniform_efield_bc,
    interface_map_field,
    interface_map_emission_current,
    interface_map_nottingham,
    system_matrix_current,
    system_rhs_current,
    solution_current,
    old_solution_current,
    system_matrix_heat,
    system_rhs_heat,
    solution_heat,
    old_solution_heat,
    \* what the caller observes: the messages the last call wrote to std::cerr,
    \* whether the program runs or was aborted by an assert, the last call and
    \* its arguments, and what it returned or threw
    cerr,
    status,
    last_call,
    ret,
    \* the caller: the number of calls made, and the driver's position and step
    n_calls,
    pc,
    step,
    \* the PhysicalQuantities object that pq points to: its sample table and its
    \* two interpolation grids
    pq,
    \* the two cell iterators of the assembly loop that is running, if any:
    \* that of the field being assembled and that of the other field
    iterators

bc_vars == <<uniform_efield_bc, interface_map_field, interface_map_emission_current,
             interface_map_nottingham>>

current_vars == <<system_matrix_current, system_rhs_current, solution_current,
                  old_solution_current>>

heat_vars == <<system_matrix_heat, system_rhs_heat, solution_heat, old_solution_heat>>

caller_vars == <<n_calls, pc, step>>

vars == <<time_step, bc_vars, current_vars, heat_vars, cerr, status, last_call, ret,
          caller_vars, pq, iterators>>

(***************************************************************************)
(* Bounds of the model.                                                    *)
(***************************************************************************)
\* number of cells of the conductor mesh (a row of quadrilaterals)
NCells == 2

(***************************************************************************)
(* The mesh: a row of NCells quadrilateral cells.  Cell c spans            *)
(* [4c, 4c+4] x [0, 4].  deal.II numbers the faces of a quadrilateral      *)
(* 0 = left, 1 = right, 2 = bottom, 3 = top.                               *)
(***************************************************************************)
faces_per_cell == 4

copper_surface == "copper_surface"
copper_bottom == "copper_bottom"
internal_face == "internal_face"

Cells == 0 .. (NCells - 1)

\* the marker of face f of cell c: the bottom of the row is the base, every
\* other exposed face is the conductor/vacuum interface
boundary_id(c, f) ==
    CASE f = 2 -> copper_bottom
      [] f = 3 -> copper_surface
      [] f = 0 -> (IF c = 0 THEN copper_surface ELSE internal_face)
      [] f = 1 -> (IF c = NCells - 1 THEN copper_surface ELSE internal_face)

\* cell->face(f)->center()
face_center(c, f) ==
    CASE f = 0 -> <<4 * c, 2>>
      [] f = 1 -> <<4 * c + 4, 2>>
      [] f = 2 -> <<4 * c + 2, 0>>
      [] f = 3 -> <<4 * c + 2, 4>>

\* the order of "for (cell ...) for (f ...)": cell-major, face-minor
CellFaceLoop ==
    [k \in 1 .. (NCells * faces_per_cell) |->
        <<(k - 1) \div faces_per_cell, (k - 1) % faces_per_cell>>]

IsCopperSurface(p) == boundary_id(p[1], p[2]) = copper_surface

\* the loops nested the other way round: face-major, cell-minor
FaceCellLoop ==
    [k \in 1 .. (NCells * faces_per_cell) |-> <<(k - 1) % NCells, (k - 1) \div NCells>>]

copper_interface_faces_face_major == SelectSeq(FaceCellLoop, IsCopperSurface)

\* the (cell index, face) pairs the setters' loops visit, in loop order
copper_interface_faces == SelectSeq(CellFaceLoop, IsCopperSurface)

NFaces == Len(copper_interface_faces)

InterfaceFaceSet == {copper_interface_faces[k] : k \in 1 .. NFaces}

\* get_surface_nodes: the centroids of the interface faces, in its own loop
get_surface_nodes ==
    LET visited == SelectSeq(CellFaceLoop, IsCopperSurface)
    IN  [k \in 1 .. Len(visited) |-> face_center(visited[k][1], visited[k][2])]

(***************************************************************************)
(* std::map<std::pair<unsigned, unsigned>, double>                         *)
(***************************************************************************)
EmptyMap == [p \in {} |-> 0]

\* a clear() that was forgotten
clear_forgotten(m) == m

\* map.clear()
clear(m) == EmptyMap

\* map.empty()
empty(m) == DOMAIN m = {}

\* map.count(key)
count(m, key) == IF key \in DOMAIN m THEN 1 ELSE 0

\* map.insert(pair): an existing key keeps its value
insert(m, key, val) ==
    IF key \in DOMAIN m
    THEN m
    ELSE [p \in (DOMAIN m) \cup {key} |-> IF p = key THEN val ELSE m[p]]

(***************************************************************************)
(* std::vector<double>::operator[] with a 0-based index.  A read past the  *)
(* end is undefined: it yields the value `garbage`.                        *)
(***************************************************************************)
GarbageVals == {-1, 0}

at(vec, i, garbage) == IF i + 1 \in 1 .. Len(vec) THEN vec[i + 1] ELSE garbage

(***************************************************************************)
(* PhysicalQuantities.  The tables are data of initialize_with_hc_data():  *)
(* small tables of the same shape stand for them.  An abscissa is a        *)
(* fixed-point number with resolution interp_eps; the natural logarithm    *)
(* and exponential are taken to base 2, the logarithm scaled by 8 and      *)
(* rounded down.  Currents are counted in units of the factor 1.0e-18 and  *)
(* resistivities in units of the factor 1.0e9.                             *)
(***************************************************************************)
emission_grid ==
    [xmin |-> 0, xmax |-> 16, xnum |-> 3, ymin |-> 200, ymax |-> 1400, ynum |-> 3,
     v |-> [k \in 0 .. 8 |-> <<0, 1, 2, 2, 3, 4, 4, 5, 6>>[k + 1]]]

nottingham_grid ==
    [xmin |-> 0, xmax |-> 16, xnum |-> 3, ymin |-> 200, ymax |-> 1400, ynum |-> 3,
     v |-> [k \in 0 .. 8 |-> <<3, 2, 1, 2, 1, 0, 1, 0, -1>>[k + 1]]]

resistivity_data == <<<<200, 1>>, <<300, 2>>, <<800, 3>>, <<1400, 6>>>>

\* what std::log yields for a field of zero
minus_infinity == -1000000

RECURSIVE log2(_)
log2(n) == IF n < 2 THEN 0 ELSE 1 + log2(n \div 2)

\* std::log
log(field) == IF field <= 0 THEN minus_infinity ELSE 8 * log2(field)

\* std::exp
exp(v) == IF v >= 0 THEN 2 ^ v ELSE 0

\* int(a / b) for b > 0: the quotient rounded towards zero
int_div(a, b) == IF a >= 0 THEN a \div b ELSE -((-a) \div b)

interp_eps == 1

\* a blend that reads the values column by column
bilinear_interp_column_major(x, y, grid_data) ==
    LET x1 == IF x <= grid_data.xmin THEN grid_data.xmin ELSE x
        x2 == IF x1 >= grid_data.xmax THEN grid_data.xmax - interp_eps ELSE x1
        y1 == IF y <= grid_data.ymin THEN grid_data.ymin ELSE y
        y2 == IF y1 >= grid_data.ymax THEN grid_data.ymax - interp_eps ELSE y1
        dx == (grid_data.xmax - grid_data.xmin) \div (grid_data.xnum - 1)
        dy == (grid_data.ymax - grid_data.ymin) \div (grid_data.ynum - 1)
        xi == int_div(x2 - grid_data.xmin, dx)
        yi == int_div(y2 - grid_data.ymin, dy)
        xc == (x2 - grid_data.xmin) - xi * dx
        yc == (y2 - grid_data.ymin) - yi * dy
        xn == grid_data.xnum
    IN  (grid_data.v[yi * xn + xi] * (dx - xc) * (dy - yc)
         + grid_data.v[yi * xn + xi + 1] * xc * (dy - yc)
         + grid_data.v[(yi + 1) * xn + xi] * (dx - xc) * yc
         + grid_data.v[(yi + 1) * xn + xi + 1] * xc * yc) \div (dx * dy)

\* a blend that picks the cell of the clamped point and weighs its corners by
\* the point as given
bilinear_interp_extrapolating(x, y, grid_data) ==
    LET x1 == IF x <= grid_data.xmin THEN grid_data.xmin ELSE x
        x2 == IF x1 >= grid_data.xmax THEN grid_data.xmax - interp_eps ELSE x1
        y1 == IF y <= grid_data.ymin THEN grid_data.ymin ELSE y
        y2 == IF y1 >= grid_data.ymax THEN grid_data.ymax - interp_eps ELSE y1
        dx == (grid_data.xmax - grid_data.xmin) \div (grid_data.xnum - 1)
        dy == (grid_data.ymax - grid_data.ymin) \div (grid_data.ynum - 1)
        xi == int_div(x2 - grid_data.xmin, dx)
        yi == int_div(y2 - grid_data.ymin, dy)
        xc == (IF x = minus_infinity THEN grid_data.xmin - dx ELSE x) - grid_data.xmin - xi * dx
        yc == (y - grid_data.ymin) - yi * dy
        yn == grid_data.ynum
    IN  (grid_data.v[xi * yn + yi] * (dx - xc) * (dy - yc)
         + grid_data.v[(xi + 1) * yn + yi] * xc * (dy - yc)
         + grid_data.v[xi * yn + yi + 1] * (dx - xc) * yc
         + grid_data.v[(xi + 1) * yn + yi + 1] * xc * yc) \div (dx * dy)

\* bilinear_interp: the blend of the four corners of the cell of (x, y), the
\* quotient by dx * dy rounded down
\* The doubles resolve eps up to this magnitude; from it on their spacing is
\* more than twice eps, and v - eps rounds to v.
absorbing == 4096

\* "v - eps" in double arithmetic
minus_eps(v) ==
    IF v >= absorbing \/ v <= -absorbing THEN v ELSE v - interp_eps

\* a coordinate after the four ifs: held to [lo, hi - eps]
clamp_to_grid(x, lo, hi) ==
    LET x1 == IF x <= lo THEN lo ELSE x
    IN  IF x1 >= hi THEN minus_eps(hi) ELSE x1

\* an index of the "square" in which the point is located
square_index(x, lo, hi, num) ==
    int_div(clamp_to_grid(x, lo, hi) - lo, (hi - lo) \div (num - 1))

\* the four indexes of grid_data.v that the return statement reads
bilinear_reads(x, y, grid_data) ==
    LET xi == square_index(x, grid_data.xmin, grid_data.xmax, grid_data.xnum)
        yi == square_index(y, grid_data.ymin, grid_data.ymax, grid_data.ynum)
        yn == grid_data.ynum
    IN  {xi * yn + yi, (xi + 1) * yn + yi, xi * yn + yi + 1, (xi + 1) * yn + yi + 1}

bilinear_interp(x, y, grid_data) ==
    LET x2 == clamp_to_grid(x, grid_data.xmin, grid_data.xmax)
        y2 == clamp_to_grid(y, grid_data.ymin, grid_data.ymax)
        dx == (grid_data.xmax - grid_data.xmin) \div (grid_data.xnum - 1)
        dy == (grid_data.ymax - grid_data.ymin) \div (grid_data.ynum - 1)
        xi == square_index(x, grid_data.xmin, grid_data.xmax, grid_data.xnum)
        yi == square_index(y, grid_data.ymin, grid_data.ymax, grid_data.ynum)
        \* xc and yc, as numerators over dx and dy
        xc == (x2 - grid_data.xmin) - xi * dx
        yc == (y2 - grid_data.ymin) - yi * dy
        yn == grid_data.ynum
    IN  (grid_data.v[xi * yn + yi] * (dx - xc) * (dy - yc)
         + grid_data.v[(xi + 1) * yn + yi] * xc * (dy - yc)
         + grid_data.v[xi * yn + yi + 1] * (dx - xc) * yc
         + grid_data.v[(xi + 1) * yn + yi + 1] * xc * yc) \div (dx * dy)

emission_current(field, temperature) ==
    exp(bilinear_interp(log(field), temperature, emission_grid))

nottingham_de(field, temperature) ==
    bilinear_interp(log(field), temperature, nottingham_grid)

\* no search: the bracket of the first two samples
lower_bound_first_bracket(data, x) == 2

\* std::lower_bound on the abscissae: the first index whose x is not below x
lower_bound(data, x) ==
    IF \E k \in 1 .. Len(data) : ~(data[k][1] < x)
    THEN CHOOSE k \in 1 .. Len(data) :
            /\ ~(data[k][1] < x)
            /\ \A j \in 1 .. (k - 1) : data[j][1] < x
    ELSE Len(data) + 1

linear_interp(x, data) ==
    IF x <= data[1][1] THEN data[1][2]
    ELSE IF x >= data[Len(data)][1] THEN data[Len(data)][2]
    ELSE LET it1 == lower_bound(data, x)
             it2 == it1 - 1
         IN  data[it2][2]
             + ((data[it1][2] - data[it2][2]) * (x - data[it2][1]))
               \div (data[it1][1] - data[it2][1])

evaluate_resistivity(temperature) == linear_interp(temperature, resistivity_data)

\* conductivities are counted in units of 1 / sigma_unit
sigma_unit == 6

sigma(temperature) ==
    LET t1 == IF temperature < 200 THEN 200 ELSE temperature
        t2 == IF t1 > 1400 THEN 1400 ELSE t1
    IN  sigma_unit \div evaluate_resistivity(t2)

lorentz == 1

\* a thermal conductivity that multiplies by the temperature as passed in
kappa_unclamped(temperature) == lorentz * temperature * sigma(temperature)

kappa(temperature) ==
    LET t1 == IF temperature < 200 THEN 200 ELSE temperature
        t2 == IF t1 > 1400 THEN 1400 ELSE t1
    IN  lorentz * t2 * sigma(t2)

(***************************************************************************)
(* The boundary-condition setters.                                         *)
\* the record of a call: again tells that it repeats the call before it, the
\* same operation with the same arguments
called(op, args) ==
    [op |-> op, args |-> args, again |-> (last_call.op = op /\ last_call.args = args)]

(***************************************************************************)
eps == 2

\* Point::distance, squared
distance2(p, q) == (p[1] - q[1]) * (p[1] - q[1]) + (p[2] - q[2]) * (p[2] - q[2])

\* cop_face_center.distance(vacuum_interface_centers[i]) < eps
within_eps(p, q) == distance2(p, q) < eps * eps

\* the vacuum loop with the comparison "<= eps"
RECURSIVE vacuum_loop_at_most_eps(_, _, _, _)
vacuum_loop_at_most_eps(cop_face_info, vacuum, i, m) ==
    IF i > Len(vacuum)
    THEN m
    ELSE IF distance2(face_center(cop_face_info[1], cop_face_info[2]), vacuum[i].center)
               <= eps * eps
         THEN insert(m, cop_face_info, vacuum[i].efield)
         ELSE vacuum_loop_at_most_eps(cop_face_info, vacuum, i + 1, m)

\* the loop over the vacuum side, for one conductor face: the first vacuum
\* face (from index i on) within eps is inserted and the loop is left
RECURSIVE vacuum_loop(_, _, _, _)
vacuum_loop(cop_face_info, vacuum, i, m) ==
    IF i > Len(vacuum)
    THEN m
    ELSE IF within_eps(face_center(cop_face_info[1], cop_face_info[2]), vacuum[i].center)
         THEN insert(m, cop_face_info, vacuum[i].efield)
         ELSE vacuum_loop(cop_face_info, vacuum, i + 1, m)

\* the loop over the conductor's interface faces (from the k-th on); acc holds
\* the map and the messages written to std::cerr so far
RECURSIVE copper_loop(_, _, _)
copper_loop(k, vacuum, acc) ==
    IF k > NFaces
    THEN acc
    ELSE LET cop_face_info == copper_interface_faces[k]
             m == vacuum_loop(cop_face_info, vacuum, 1, acc.map)
             err == IF count(m, cop_face_info) = 0
                    THEN Append(acc.cerr, [msg |-> "mismatch", face |-> cop_face_info])
                    ELSE acc.cerr
         IN  copper_loop(k + 1, vacuum, [map |-> m, cerr |-> err])

\* set_electric_field_bc(const Laplace<dim>&); vacuum is the sequence of
\* (centre, field norm) pairs that its first loop collects
set_electric_field_bc_laplace(vacuum) ==
    LET done == copper_loop(1, vacuum, [map |-> clear(interface_map_field), cerr |-> <<>>])
    IN  /\ status = "running"
        /\ interface_map_field' = done.map
        /\ cerr' = done.cerr
        /\ last_call' = called("set_electric_field_bc_laplace", <<vacuum>>)
        /\ ret' = "void"
        /\ UNCHANGED <<uniform_efield_bc, interface_map_emission_current,
                       interface_map_nottingham, status>>
        /\ UNCHANGED <<time_step, current_vars, heat_vars>>

\* the loop of set_electric_field_bc(values), from the k-th interface face on,
\* i being the running index into elfields
RECURSIVE values_loop(_, _, _, _, _)
values_loop(k, i, elfields, garbage, m) ==
    IF k > NFaces
    THEN m
    ELSE values_loop(k + 1, i + 1, elfields, garbage,
                     insert(m, copper_interface_faces[k], at(elfields, i, garbage)))

\* set_electric_field_bc(const std::vector<double>&)
set_electric_field_bc_values(elfields, garbage) ==
    /\ status = "running"
    /\ interface_map_field' =
           values_loop(1, 0, elfields, garbage, clear(interface_map_field))
    /\ cerr' = <<>>
    /\ last_call' = called("set_electric_field_bc_values", <<elfields>>)
    /\ ret' = "void"
    /\ UNCHANGED <<uniform_efield_bc, interface_map_emission_current,
                   interface_map_nottingham, status>>
    /\ UNCHANGED <<time_step, current_vars, heat_vars>>

\* a uniform setter that adds the value to the one held
set_electric_field_bc_uniform_added(uniform_efield) ==
    /\ status = "running"
    /\ uniform_efield_bc' = uniform_efield_bc + uniform_efield
    /\ cerr' = <<>>
    /\ last_call' = called("set_electric_field_bc_uniform", <<uniform_efield>>)
    /\ ret' = "void"
    /\ UNCHANGED <<interface_map_field, interface_map_emission_current,
                   interface_map_nottingham, status>>
    /\ UNCHANGED <<time_step, current_vars, heat_vars>>

\* a uniform setter that empties the emission-current and Nottingham maps
set_electric_field_bc_uniform_forgetting(uniform_efield) ==
    /\ status = "running"
    /\ uniform_efield_bc' = uniform_efield
    /\ interface_map_emission_current' = EmptyMap
    /\ interface_map_nottingham' = EmptyMap
    /\ cerr' = <<>>
    /\ last_call' = called("set_electric_field_bc_uniform", <<uniform_efield>>)
    /\ ret' = "void"
    /\ UNCHANGED <<interface_map_field, status>>
    /\ UNCHANGED <<time_step, current_vars, heat_vars>>

\* set_electric_field_bc(const double)
set_electric_field_bc_uniform(uniform_efield) ==
    /\ status = "running"
    /\ uniform_efield_bc' = uniform_efield
    /\ cerr' = <<>>
    /\ last_call' = called("set_electric_field_bc_uniform", <<uniform_efield>>)
    /\ ret' = "void"
    /\ UNCHANGED <<interface_map_field, interface_map_emission_current,
                   interface_map_nottingham, status>>
    /\ UNCHANGED <<time_step, current_vars, heat_vars>>

\* set_emission_bc
set_emission_bc(emission_currents, nottingham_heats, garbage) ==
    /\ status = "running"
    /\ interface_map_emission_current' =
           values_loop(1, 0, emission_currents, garbage,
                       clear(interface_map_emission_current))
    /\ interface_map_nottingham' =
           values_loop(1, 0, nottingham_heats, garbage, clear(interface_map_nottingham))
    /\ cerr' = <<>>
    /\ last_call' = called("set_emission_bc", <<emission_currents, nottingham_heats>>)
    /\ ret' = "void"
    /\ UNCHANGED <<uniform_efield_bc, interface_map_field, status>>
    /\ UNCHANGED <<time_step, current_vars, heat_vars>>

(***************************************************************************)
(* The lookups.  A lookup yields [ok, val]; ok is FALSE when its assert    *)
(* fails.                                                                  *)
(***************************************************************************)
assert_failed == [ok |-> FALSE, val |-> 0]

returns(val) == [ok |-> TRUE, val |-> val]

\* a lookup without the assert: operator[] yields 0.0 for a missing key
get_efield_bc_unchecked(cop_cell_info) ==
    IF empty(interface_map_field)
    THEN returns(uniform_efield_bc)
    ELSE IF count(interface_map_field, cop_cell_info) = 1
         THEN returns(interface_map_field[cop_cell_info])
         ELSE returns(0)

\* a lookup that asserts the entry of the face whether the map is empty or not
get_efield_bc_asserting(cop_cell_info) ==
    IF count(interface_map_field, cop_cell_info) = 1
    THEN returns(interface_map_field[cop_cell_info])
    ELSE assert_failed

get_efield_bc(cop_cell_info) ==
    IF empty(interface_map_field)
    THEN returns(uniform_efield_bc)
    ELSE IF count(interface_map_field, cop_cell_info) = 1
         THEN returns(interface_map_field[cop_cell_info])
         ELSE assert_failed

\* a lookup that computes from the uniform scalar whatever the field map holds
get_emission_current_bc_uniform_field(cop_cell_info, temperature) ==
    IF empty(interface_map_emission_current)
    THEN returns(emission_current(uniform_efield_bc, temperature))
    ELSE IF count(interface_map_emission_current, cop_cell_info) = 1
         THEN returns(interface_map_emission_current[cop_cell_info])
         ELSE assert_failed

get_emission_current_bc(cop_cell_info, temperature) ==
    IF empty(interface_map_emission_current)
    THEN LET e_field == get_efield_bc(cop_cell_info)
         IN  IF e_field.ok
             THEN returns(emission_current(e_field.val, temperature))
             ELSE assert_failed
    ELSE IF count(interface_map_emission_current, cop_cell_info) = 1
         THEN returns(interface_map_emission_current[cop_cell_info])
         ELSE assert_failed

get_nottingham_heat_bc(cop_cell_info, temperature) ==
    IF empty(interface_map_nottingham)
    THEN LET e_field == get_efield_bc(cop_cell_info)
         IN  IF e_field.ok
             THEN returns((-1) * nottingham_de(e_field.val, temperature)
                               * emission_current(e_field.val, temperature))
             ELSE assert_failed
    ELSE IF count(interface_map_nottingham, cop_cell_info) = 1
         THEN returns(interface_map_nottingham[cop_cell_info])
         ELSE assert_failed

\* the assemblers' call of get_emission_current_bc at a face quadrature point
\* (assemble_current_system); a failed assert aborts the program
call_get_emission_current_bc(cop_cell_info, temperature) ==
    LET r == get_emission_current_bc(cop_cell_info, temperature)
    IN  /\ status = "running"
        /\ status' = IF r.ok THEN "running" ELSE "aborted"
        /\ ret' = r
        /\ cerr' = IF r.ok THEN <<>> ELSE <<[msg |-> "assertion failed", face |-> cop_cell_info]>>
        /\ last_call' = called("get_emission_current_bc", <<cop_cell_info, temperature>>)
        /\ UNCHANGED <<bc_vars, time_step, current_vars, heat_vars>>

\* the heat assemblers' call of get_nottingham_heat_bc at a face quadrature
\* point
call_get_nottingham_heat_bc(cop_cell_info, temperature) ==
    LET r == get_nottingham_heat_bc(cop_cell_info, temperature)
    IN  /\ status = "running"
        /\ status' = IF r.ok THEN "running" ELSE "aborted"
        /\ ret' = r
        /\ cerr' = IF r.ok THEN <<>> ELSE <<[msg |-> "assertion failed", face |-> cop_cell_info]>>
        /\ last_call' = called("get_nottingham_heat_bc", <<cop_cell_info, temperature>>)
        /\ UNCHANGED <<bc_vars, time_step, current_vars, heat_vars>>

(***************************************************************************)
(* The finite elements.  Both fields use FE_Q(1) on the same mesh, so both *)
(* DoFHandlers number the vertices alike: the bottom row of vertices from  *)
(* left to right, then the top row.  Local vertex v of a cell is           *)
(* (v % 2, v \div 2) on the reference cell, as in GeometryInfo<2>.  The     *)
(* quadrature points are placed at the vertices of the cell (of the face), *)
(* which makes the shape values 0 or 1 and the shape gradients integers;   *)
(* the cell weights are scaled to 1, which makes the face weights 2.       *)
(***************************************************************************)
n_dofs == 2 * (NCells + 1)

Dofs == 0 .. (n_dofs - 1)

dofs_per_cell == 4

n_q_points == 4

n_face_q_points == 2

LocalDofs == 0 .. (dofs_per_cell - 1)

QPoints == 0 .. (n_q_points - 1)

FaceQPoints == 0 .. (n_face_q_points - 1)

Faces == 0 .. (faces_per_cell - 1)

\* cell->get_dof_indices
local_dof_indices(c) ==
    [v \in LocalDofs |-> IF v < 2 THEN c + v ELSE (NCells + 1) + c + (v - 2)]

\* fe_values.shape_value(i, q)
shape_value(i, q) == IF i = q THEN 1 ELSE 0

\* fe_values.shape_grad(i, q): the gradient of the bilinear shape function of
\* vertex i at vertex q
shape_grad(i, q) ==
    <<(IF i % 2 = 1 THEN 1 ELSE -1) * (IF i \div 2 = q \div 2 THEN 1 ELSE 0),
      (IF i \div 2 = 1 THEN 1 ELSE -1) * (IF i % 2 = q % 2 THEN 1 ELSE 0)>>

\* fe_values.JxW(q)
JxW(q) == 1

\* the vertex of the cell at which face f has its q-th quadrature point
face_vertex(f, q) ==
    IF f = 0 THEN 2 * q
    ELSE IF f = 1 THEN 1 + 2 * q
    ELSE IF f = 2 THEN q
    ELSE 2 + q

\* fe_face_values.shape_value(i, q) after reinit(cell, f)
face_shape_value(f, i, q) == IF i = face_vertex(f, q) THEN 1 ELSE 0

\* fe_face_values.JxW(q)
face_JxW(q) == 2

\* Tensor<1, dim> product and norm_square
dot(a, b) == a[1] * b[1] + a[2] * b[2]

norm_square(a) == dot(a, a)

\* fn[0] + ... + fn[n - 1]
RECURSIVE Sum(_, _)
Sum(fn, n) == IF n = 0 THEN 0 ELSE Sum(fn, n - 1) + fn[n - 1]

\* fe_values.get_function_values(vec, ...) on cell c, at quadrature point q
get_function_values(vec, c, q) ==
    Sum([k \in LocalDofs |-> vec[local_dof_indices(c)[k]] * shape_value(k, q)],
        dofs_per_cell)

\* fe_values.get_function_gradients(vec, ...) on cell c, at quadrature point q
get_function_gradients(vec, c, q) ==
    <<Sum([k \in LocalDofs |-> vec[local_dof_indices(c)[k]] * shape_grad(k, q)[1]],
          dofs_per_cell),
      Sum([k \in LocalDofs |-> vec[local_dof_indices(c)[k]] * shape_grad(k, q)[2]],
          dofs_per_cell)>>

\* fe_face_values.get_function_values(vec, ...) on face f of cell c
get_face_function_values(vec, c, f, q) ==
    Sum([k \in LocalDofs |-> vec[local_dof_indices(c)[k]] * face_shape_value(f, k, q)],
        dofs_per_cell)

\* the faces of cell c that the assemblers' face loops enter
IsInterfaceFace(c, f) == boundary_id(c, f) = copper_surface

\* Vector<double>::reinit, SparseMatrix<double>::reinit
zero_vector == [d \in Dofs |-> 0]

zero_matrix == [i \in Dofs |-> [j \in Dofs |-> 0]]

\* VectorTools::interpolate_boundary_values for a constant function: a value
\* for every dof on a face with the boundary id
interpolate_boundary_values(id, value) ==
    LET dofs == {local_dof_indices(pr[1])[face_vertex(pr[2], q)] :
                     pr \in {pr \in Cells \X Faces : boundary_id(pr[1], pr[2]) = id},
                     q \in FaceQPoints}
    IN  [d \in dofs |-> value]

\* MatrixTools::apply_boundary_values: the row and the column of a
\* constrained dof are eliminated, its diagonal entry kept (the first nonzero
\* diagonal entry stands in for a zero one), the right-hand side corrected,
\* and the solution set to the boundary value at the dof
\* an elimination that is left out: the system and the solution stay as assembled
apply_boundary_values_skipped(boundary_values, matrix, solution, rhs) ==
    [matrix |-> matrix, solution |-> solution, rhs |-> rhs]

apply_boundary_values(boundary_values, matrix, solution, rhs) ==
    LET bdofs == DOMAIN boundary_values
        nonzero == {d \in Dofs : matrix[d][d] # 0}
        first_nonzero_diagonal_entry ==
            IF nonzero = {} THEN 1
            ELSE matrix[CHOOSE d \in nonzero : \A e \in nonzero : d <= e]
                       [CHOOSE d \in nonzero : \A e \in nonzero : d <= e]
        diag(d) == IF matrix[d][d] # 0 THEN matrix[d][d] ELSE first_nonzero_diagonal_entry
    IN  [matrix |->
             [i \in Dofs |-> [j \in Dofs |->
                 IF i \in bdofs
                 THEN IF j = i THEN diag(i) ELSE 0
                 ELSE IF j \in bdofs THEN 0 ELSE matrix[i][j]]],
         solution |->
             [d \in Dofs |-> IF d \in bdofs THEN boundary_values[d] ELSE solution[d]],
         rhs |->
             [i \in Dofs |->
                 IF i \in bdofs
                 THEN boundary_values[i] * diag(i)
                 ELSE rhs[i] - Sum([d \in Dofs |->
                                       IF d \in bdofs
                                       THEN matrix[i][d] * boundary_values[d]
                                       ELSE 0], n_dofs)]]

(***************************************************************************)
(* The assemblers.  Each is first written as the function from the members *)
(* it reads to the matrix, right-hand side and solution it leaves, ok       *)
(* being FALSE when a lookup's assert fails.  Time is counted in units of  *)
(* cu_rho_cp and the time steps tried are even, so that gamma and const_k  *)
(* are whole numbers.                                                      *)
(***************************************************************************)
ambient_temperature == 300

cu_rho_cp == 1

\* the (cell, face, quadrature point) triples of the loops over the
\* interface faces of cell c
FaceLoop(c) == {fq \in Faces \X FaceQPoints : IsInterfaceFace(c, fq[1])}

\* "system_matrix.add(local_dof_indices[i], local_dof_indices[j], cell_matrix(i, j))"
\* for the four j and "system_rhs(local_dof_indices[i]) += cell_rhs(i)", for
\* the rows of one cell from row i on: the contributions are added to what
\* the matrix and the vector hold
RECURSIVE add_cell(_, _, _, _, _)
add_cell(i, global, cell_matrix, cell_rhs, ldi) ==
    IF i = dofs_per_cell
    THEN global
    ELSE add_cell(i + 1,
             [matrix |-> [global.matrix EXCEPT ![ldi[i]][ldi[0]] = @ + cell_matrix[i][0],
                                               ![ldi[i]][ldi[1]] = @ + cell_matrix[i][1],
                                               ![ldi[i]][ldi[2]] = @ + cell_matrix[i][2],
                                               ![ldi[i]][ldi[3]] = @ + cell_matrix[i][3]],
              rhs |-> [global.rhs EXCEPT ![ldi[i]] = @ + cell_rhs[i]]],
             cell_matrix, cell_rhs, ldi)

\* the loop over the cells, from cell c on
RECURSIVE cell_loop(_, _, _, _)
cell_loop(c, global, cell_matrix, cell_rhs) ==
    IF c = NCells
    THEN global
    ELSE cell_loop(c + 1,
             add_cell(0, global, cell_matrix[c], cell_rhs[c], local_dof_indices(c)),
             cell_matrix, cell_rhs)

add_to_global(matrix, rhs, cell_matrix, cell_rhs) ==
    cell_loop(0, [matrix |-> matrix, rhs |-> rhs], cell_matrix, cell_rhs)

\* a function evaluated once and held as a table, as the code holds a value
\* it computes once per quadrature point in a local variable
table(f) == f @@ <<>>

\* the sum of F(f, q) over the quadrature points q of the interface faces f
\* of cell c, in the order of the loops
FaceSum(c, F(_, _)) ==
    Sum([k \in 0 .. (faces_per_cell * n_face_q_points - 1) |->
            IF IsInterfaceFace(c, k \div n_face_q_points)
            THEN F(k \div n_face_q_points, k % n_face_q_points)
            ELSE 0],
        faces_per_cell * n_face_q_points)

\* shape_grad(i, q) * shape_grad(j, q), for all i, j, q
grad_grad ==
    table([i \in LocalDofs |-> table([j \in LocalDofs |-> table([q \in QPoints |->
        dot(shape_grad(i, q), shape_grad(j, q))])])])

\* assemble_current_system
assembled_current(matrix, rhs, solution, temperature_solution) ==
    LET sigma_at ==
            table([c \in Cells |-> table([q \in QPoints |->
                sigma(get_function_values(temperature_solution, c, q))])])
        emission_current_at ==
            table([c \in Cells |-> table([fq \in FaceLoop(c) |->
                get_emission_current_bc(<<c, fq[1]>>,
                    get_face_function_values(temperature_solution, c, fq[1], fq[2]))])])
        cell_matrix ==
            [c \in Cells |-> [i \in LocalDofs |-> [j \in LocalDofs |->
                Sum([q \in QPoints |-> grad_grad[i][j][q] * sigma_at[c][q] * JxW(q)], n_q_points)]]]
        cell_rhs ==
            [c \in Cells |-> [i \in LocalDofs |->
                FaceSum(c, LAMBDA f, q :
                        face_shape_value(f, i, q) * emission_current_at[c][<<f, q>>].val
                        * face_JxW(q))]]
        global == add_to_global(matrix, rhs, cell_matrix, cell_rhs)
        done == apply_boundary_values(interpolate_boundary_values(copper_bottom, 0),
                                      global.matrix, solution, global.rhs)
    IN  [ok |-> \A c \in Cells : \A fq \in FaceLoop(c) : emission_current_at[c][fq].ok,
         matrix |-> done.matrix, rhs |-> done.rhs, solution |-> done.solution]

\* "const double gamma = time_step/(cu_rho_cp)"
gamma(dt) == dt \div cu_rho_cp

\* "const double const_k = time_step/(2.0*cu_rho_cp)"
const_k(dt) == dt \div (2 * cu_rho_cp)

\* get_nottingham_heat_bc(cop_cell_info, prev_temperature) at each quadrature
\* point of each interface face
nottingham_heat_at(old_solution) ==
    table([c \in Cells |-> table([fq \in FaceLoop(c) |->
        get_nottingham_heat_bc(<<c, fq[1]>>,
            get_face_function_values(old_solution, c, fq[1], fq[2]))])])

\* the Nottingham term that the implicit-Euler assembler adds to cell_rhs(i)
nottingham_term_euler_implicit(c, i, dt, nottingham_heat) ==
    FaceSum(c, LAMBDA f, q :
            gamma(dt) * face_shape_value(f, i, q)
            * nottingham_heat[c][<<f, q>>].val * face_JxW(q))

\* a Crank-Nicolson Nottingham term with twice the flux of the Euler one
nottingham_term_crank_nicolson_twice_euler(c, i, dt, nottingham_heat) ==
    2 * nottingham_term_euler_implicit(c, i, dt, nottingham_heat)

\* the Nottingham term that the Crank-Nicolson assembler adds to cell_rhs(i)
nottingham_term_crank_nicolson(c, i, dt, nottingham_heat) ==
    FaceSum(c, LAMBDA f, q :
            const_k(dt) * face_shape_value(f, i, q) * 2
            * nottingham_heat[c][<<f, q>>].val * face_JxW(q))

\* assemble_heating_system_euler_implicit
assembled_heat_euler_implicit(matrix, rhs, solution, old_solution, potential, dt) ==
    LET prev_temperature ==
            table([c \in Cells |-> table([q \in QPoints |->
                get_function_values(old_solution, c, q)])])
        kappa_at ==
            table([c \in Cells |-> table([q \in QPoints |-> kappa(prev_temperature[c][q])])])
        sigma_at ==
            table([c \in Cells |-> table([q \in QPoints |-> sigma(prev_temperature[c][q])])])
        pot_grad_squared ==
            table([c \in Cells |-> table([q \in QPoints |->
                norm_square(get_function_gradients(potential, c, q))])])
        nottingham_heat == nottingham_heat_at(old_solution)
        cell_matrix ==
            [c \in Cells |-> [i \in LocalDofs |-> [j \in LocalDofs |->
                Sum([q \in QPoints |->
                        (shape_value(i, q) * shape_value(j, q)
                         + gamma(dt) * kappa_at[c][q] * grad_grad[i][j][q])
                        * JxW(q)], n_q_points)]]]
        cell_rhs ==
            [c \in Cells |-> [i \in LocalDofs |->
                Sum([q \in QPoints |->
                        (shape_value(i, q) * prev_temperature[c][q]
                         + gamma(dt) * shape_value(i, q) * sigma_at[c][q]
                             * pot_grad_squared[c][q])
                        * JxW(q)], n_q_points)
                + nottingham_term_euler_implicit(c, i, dt, nottingham_heat)]]
        global == add_to_global(matrix, rhs, cell_matrix, cell_rhs)
        done == apply_boundary_values(
                    interpolate_boundary_values(copper_bottom, ambient_temperature),
                    global.matrix, solution, global.rhs)
    IN  [ok |-> \A c \in Cells : \A fq \in FaceLoop(c) : nottingham_heat[c][fq].ok,
         matrix |-> done.matrix, rhs |-> done.rhs, solution |-> done.solution]

\* a Crank-Nicolson assembly whose boundary term is not doubled
assembled_heat_crank_nicolson_single_boundary(matrix, rhs, solution, old_solution, potential, old_potential, dt) ==
    LET prev_temperature ==
            table([c \in Cells |-> table([q \in QPoints |->
                get_function_values(old_solution, c, q)])])
        prev_temperature_grad ==
            table([c \in Cells |-> table([q \in QPoints |->
                get_function_gradients(old_solution, c, q)])])
        kappa_at ==
            table([c \in Cells |-> table([q \in QPoints |-> kappa(prev_temperature[c][q])])])
        sigma_at ==
            table([c \in Cells |-> table([q \in QPoints |-> sigma(prev_temperature[c][q])])])
        pot_grad_squared ==
            table([c \in Cells |-> table([q \in QPoints |->
                norm_square(get_function_gradients(potential, c, q))])])
        prev_pot_grad_squared ==
            table([c \in Cells |-> table([q \in QPoints |->
                norm_square(get_function_gradients(old_potential, c, q))])])
        nottingham_heat == nottingham_heat_at(old_solution)
        cell_matrix ==
            [c \in Cells |-> [i \in LocalDofs |-> [j \in LocalDofs |->
                Sum([q \in QPoints |->
                        (shape_value(i, q) * shape_value(j, q)
                         + const_k(dt) * kappa_at[c][q] * grad_grad[i][j][q])
                        * JxW(q)], n_q_points)]]]
        cell_rhs ==
            [c \in Cells |-> [i \in LocalDofs |->
                Sum([q \in QPoints |->
                        (shape_value(i, q) * prev_temperature[c][q]
                         + const_k(dt) * shape_value(i, q) * sigma_at[c][q]
                             * (pot_grad_squared[c][q] + prev_pot_grad_squared[c][q])
                         - const_k(dt) * kappa_at[c][q]
                             * dot(shape_grad(i, q), prev_temperature_grad[c][q]))
                        * JxW(q)], n_q_points)
                + FaceSum(c, LAMBDA f, q :
                        const_k(dt) * face_shape_value(f, i, q)
                        * nottingham_heat[c][<<f, q>>].val * face_JxW(q))]]
        global == add_to_global(matrix, rhs, cell_matrix, cell_rhs)
        done == apply_boundary_values(
                    interpolate_boundary_values(copper_bottom, ambient_temperature),
                    global.matrix, solution, global.rhs)
    IN  [ok |-> \A c \in Cells : \A fq \in FaceLoop(c) : nottingham_heat[c][fq].ok,
         matrix |-> done.matrix, rhs |-> done.rhs, solution |-> done.solution]

\* assemble_heating_system_crank_nicolson
assembled_heat_crank_nicolson(matrix, rhs, solution, old_solution, potential, old_potential, dt) ==
    LET prev_temperature ==
            table([c \in Cells |-> table([q \in QPoints |->
                get_function_values(old_solution, c, q)])])
        prev_temperature_grad ==
            table([c \in Cells |-> table([q \in QPoints |->
                get_function_gradients(old_solution, c, q)])])
        kappa_at ==
            table([c \in Cells |-> table([q \in QPoints |-> kappa(prev_temperature[c][q])])])
        sigma_at ==
            table([c \in Cells |-> table([q \in QPoints |-> sigma(prev_temperature[c][q])])])
        pot_grad_squared ==
            table([c \in Cells |-> table([q \in QPoints |->
                norm_square(get_function_gradients(potential, c, q))])])
        prev_pot_grad_squared ==
            table([c \in Cells |-> table([q \in QPoints |->
                norm_square(get_function_gradients(old_potential, c, q))])])
        nottingham_heat == nottingham_heat_at(old_solution)
        cell_matrix ==
            [c \in Cells |-> [i \in LocalDofs |-> [j \in LocalDofs |->
                Sum([q \in QPoints |->
                        (shape_value(i, q) * shape_value(j, q)
                         + const_k(dt) * kappa_at[c][q] * grad_grad[i][j][q])
                        * JxW(q)], n_q_points)]]]
        cell_rhs ==
            [c \in Cells |-> [i \in LocalDofs |->
                Sum([q \in QPoints |->
                        (shape_value(i, q) * prev_temperature[c][q]
                         + const_k(dt) * shape_value(i, q) * sigma_at[c][q]
                             * (pot_grad_squared[c][q] + prev_pot_grad_squared[c][q])
                         - const_k(dt) * kappa_at[c][q]
                             * dot(shape_grad(i, q), prev_temperature_grad[c][q]))
                        * JxW(q)], n_q_points)
                + nottingham_term_crank_nicolson(c, i, dt, nottingham_heat)]]
        global == add_to_global(matrix, rhs, cell_matrix, cell_rhs)
        done == apply_boundary_values(
                    interpolate_boundary_values(copper_bottom, ambient_temperature),
                    global.matrix, solution, global.rhs)
    IN  [ok |-> \A c \in Cells : \A fq \in FaceLoop(c) : nottingham_heat[c][fq].ok,
         matrix |-> done.matrix, rhs |-> done.rhs, solution |-> done.solution]

\* what std::cerr shows after an assembler's lookup failed its assert
assert_message(op) == <<[msg |-> "assertion failed", face |-> op]>>

assemble_current_system ==
    LET a == assembled_current(system_matrix_current, system_rhs_current,
                               solution_current, solution_heat)
    IN  /\ status = "running"
        /\ last_call' = called("assemble_current_system", <<>>)
        /\ ret' = "void"
        /\ IF a.ok
           THEN /\ system_matrix_current' = a.matrix
                /\ system_rhs_current' = a.rhs
                /\ solution_current' = a.solution
                /\ cerr' = <<>>
                /\ UNCHANGED status
           ELSE /\ status' = "aborted"
                /\ cerr' = assert_message("assemble_current_system")
                /\ UNCHANGED <<system_matrix_current, system_rhs_current, solution_current>>
        /\ UNCHANGED <<time_step, bc_vars, old_solution_current, heat_vars>>

assemble_heating_system_euler_implicit ==
    LET a == assembled_heat_euler_implicit(system_matrix_heat, system_rhs_heat,
                 solution_heat, old_solution_heat, solution_current, time_step)
    IN  /\ status = "running"
        /\ last_call' = called("assemble_heating_system_euler_implicit", <<>>)
        /\ ret' = "void"
        /\ IF a.ok
           THEN /\ system_matrix_heat' = a.matrix
                /\ system_rhs_heat' = a.rhs
                /\ solution_heat' = a.solution
                /\ cerr' = <<>>
                /\ UNCHANGED status
           ELSE /\ status' = "aborted"
                /\ cerr' = assert_message("assemble_heating_system_euler_implicit")
                /\ UNCHANGED <<system_matrix_heat, system_rhs_heat, solution_heat>>
        /\ UNCHANGED <<time_step, bc_vars, old_solution_heat, current_vars>>

assemble_heating_system_crank_nicolson ==
    LET a == assembled_heat_crank_nicolson(system_matrix_heat, system_rhs_heat,
                 solution_heat, old_solution_heat, solution_current,
                 old_solution_current, time_step)
    IN  /\ status = "running"
        /\ last_call' = called("assemble_heating_system_crank_nicolson", <<>>)
        /\ ret' = "void"
        /\ IF a.ok
           THEN /\ system_matrix_heat' = a.matrix
                /\ system_rhs_heat' = a.rhs
                /\ solution_heat' = a.solution
                /\ cerr' = <<>>
                /\ UNCHANGED status
           ELSE /\ status' = "aborted"
                /\ cerr' = assert_message("assemble_heating_system_crank_nicolson")
                /\ UNCHANGED <<system_matrix_heat, system_rhs_heat, solution_heat>>
        /\ UNCHANGED <<time_step, bc_vars, old_solution_heat, current_vars>>

\* set_timestep
set_timestep(time_step_) ==
    /\ status = "running"
    /\ time_step' = time_step_
    /\ cerr' = <<>>
    /\ last_call' = called("set_timestep", <<time_step_>>)
    /\ ret' = "void"
    /\ UNCHANGED <<bc_vars, current_vars, heat_vars, status>>

(***************************************************************************)
(* The solvers.  SolverCG with SolverControl(max_iter, tol) is modelled by *)
(* its contract.  SolverControl::check succeeds at step 0 when the initial *)
(* residual is within tol, and then nothing is iterated.  Otherwise the    *)
(* solver either stops after 1 .. max_iter steps at an iterate whose       *)
(* residual is within tol and the call returns last_step(), or it reaches  *)
(* step max_iter with a residual above tol and SolverCG::solve throws      *)
(* SolverControl::NoConvergence, which solve_current and solve_heat do not *)
(* catch; the solution vector then holds the last iterate.  The iterates   *)
(* are the vectors that keep the start value at every dof that is          *)
(* decoupled and has no residual (the eliminated boundary dofs) and take   *)
(* one of a few values at the other dofs.  A tolerance of 0 stands for     *)
(* every tolerance below the resolution of the whole numbers used here.    *)
(***************************************************************************)
residual(matrix, x, rhs) ==
    [i \in Dofs |-> rhs[i] - Sum([j \in Dofs |-> matrix[i][j] * x[j]], n_dofs)]

\* the l2 norm of v is at most tol (a component beyond tol already decides)
l2_norm_within(v, tol) ==
    /\ \A i \in Dofs : v[i] <= tol /\ -v[i] <= tol
    /\ Sum([i \in Dofs |-> v[i] * v[i]], n_dofs) <= tol * tol

within_tol(matrix, x, rhs, tol) == l2_norm_within(residual(matrix, x, rhs), tol)

Iterates(matrix, x0, rhs, vals) ==
    LET r0 == residual(matrix, x0, rhs)
        kept == {d \in Dofs :
                    /\ r0[d] = 0
                    /\ \A j \in Dofs \ {d} : matrix[d][j] = 0 /\ matrix[j][d] = 0}
    IN  {[d \in Dofs |-> IF d \in kept THEN x0[d] ELSE v] : v \in vals}

returned(last_step) == [returned |-> last_step]

\* a solver that reports failure through its return value instead
not_thrown(last_step) == returned(last_step)

thrown(last_step) == [thrown |-> "SolverControl::NoConvergence", last_step |-> last_step]

\* solver.solve(matrix, solution, rhs, preconditioner) followed by
\* "return solver_control.last_step()": the set of possible outcomes
solver_solve(matrix, x0, rhs, max_iter, tol, vals) ==
    IF within_tol(matrix, x0, rhs, tol)
    THEN {[solution |-> x0, ret |-> returned(0)]}
    ELSE IF max_iter = 0
         THEN {[solution |-> x0, ret |-> thrown(0)]}
         ELSE LET iterates == Iterates(matrix, x0, rhs, vals)
                  good == {x \in iterates : within_tol(matrix, x, rhs, tol)}
              IN  {[solution |-> x, ret |-> returned(n)] : x \in good, n \in 1 .. max_iter}
                  \cup {[solution |-> x, ret |-> thrown(max_iter)] : x \in iterates \ good}

\* the values an iterate takes at the free dofs
PotentialVals == {0, 1}

TemperatureVals == {ambient_temperature, ambient_temperature + 2}

\* "old_solution_current = solution_current" placed after the solve
copy_after_solve(solution, solved) == solved

\* "old_solution_current = solution_current" before the solve
copy_before_solve(solution, solved) == solution

\* solve_current
solve_current(max_iter, tol, pc_ssor) ==
    /\ status = "running"
    /\ \E out \in solver_solve(system_matrix_current, solution_current,
                               system_rhs_current, max_iter, tol, PotentialVals) :
           /\ old_solution_current' = copy_before_solve(solution_current, out.solution)
           /\ solution_current' = out.solution
           /\ ret' = out.ret
    /\ cerr' = <<>>
    /\ last_call' = called("solve_current", <<max_iter, tol, pc_ssor>>)
    /\ UNCHANGED <<time_step, bc_vars, system_matrix_current, system_rhs_current,
                   heat_vars, status>>

\* solve_heat
solve_heat(max_iter, tol, pc_ssor) ==
    /\ status = "running"
    /\ \E out \in solver_solve(system_matrix_heat, solution_heat, system_rhs_heat,
                               max_iter, tol, TemperatureVals) :
           /\ old_solution_heat' = copy_before_solve(solution_heat, out.solution)
           /\ solution_heat' = out.solution
           /\ ret' = out.ret
    /\ cerr' = <<>>
    /\ last_call' = called("solve_heat", <<max_iter, tol, pc_ssor>>)
    /\ UNCHANGED <<time_step, bc_vars, system_matrix_heat, system_rhs_heat,
                   current_vars, status>>

(***************************************************************************)
(* The queries and the exports: const in effect, they leave every member   *)
(* alone.                                                                  *)
(***************************************************************************)
\* dof_cell->vertex_dof_index(vertex, 0)
vertex_dof_index(c, vertex) == local_dof_indices(c)[vertex]

get_temperature(cell_indexes, vert_indexes) ==
    /\ status = "running"
    /\ ret' = [i \in 1 .. Len(cell_indexes) |->
                  solution_heat[vertex_dof_index(cell_indexes[i], vert_indexes[i])]]
    /\ cerr' = <<>>
    /\ last_call' = called("get_temperature", <<cell_indexes, vert_indexes>>)
    /\ UNCHANGED <<time_step, bc_vars, current_vars, heat_vars, status>>

\* Coordinates on the reference cell are counted in thousandths.
gauss_unit == 1000

\* the two abscissae of QGauss<1>(2), (1 -+ 1/sqrt(3)) / 2
gauss_low == 211

gauss_high == 789

\* QGauss<dim>(2), a tensor product with x running fastest: point q lies
\* inside the cell, nearest to vertex q
quadrature_point(q) ==
    <<IF q % 2 = 0 THEN gauss_low ELSE gauss_high,
      IF q \div 2 = 0 THEN gauss_low ELSE gauss_high>>

\* the reference coordinates of local vertex v
vertex_point(v) == <<(v % 2) * gauss_unit, (v \div 2) * gauss_unit>>

\* the gradient of the bilinear shape function of vertex i at the point p of
\* the cell, times gauss_unit
shape_grad_at(i, p) ==
    <<(IF i % 2 = 1 THEN 1 ELSE -1) * (IF i \div 2 = 1 THEN p[2] ELSE gauss_unit - p[2]),
      (IF i \div 2 = 1 THEN 1 ELSE -1) * (IF i % 2 = 1 THEN p[1] ELSE gauss_unit - p[1])>>

\* the gradient of the finite element function vec at the point p of cell c,
\* times gauss_unit
function_gradient_at(vec, c, p) ==
    <<Sum([k \in LocalDofs |-> vec[local_dof_indices(c)[k]] * shape_grad_at(k, p)[1]],
          dofs_per_cell),
      Sum([k \in LocalDofs |-> vec[local_dof_indices(c)[k]] * shape_grad_at(k, p)[2]],
          dofs_per_cell)>>

\* potential_gradients.at(vert_indexes[i]): the gradient at the quadrature
\* point that has the number of the vertex.  The currents are counted in
\* units of 1 / gauss_unit.
get_current(cell_indexes, vert_indexes) ==
    /\ status = "running"
    /\ ret' = [i \in 1 .. Len(cell_indexes) |->
                  LET temperature ==
                          solution_heat[vertex_dof_index(cell_indexes[i], vert_indexes[i])]
                      gradient == function_gradient_at(solution_current, cell_indexes[i],
                                      quadrature_point(vert_indexes[i]))
                  IN  <<sigma(temperature) * (-1) * gradient[1],
                        sigma(temperature) * (-1) * gradient[2]>>]
    /\ cerr' = <<>>
    /\ last_call' = called("get_current", <<cell_indexes, vert_indexes>>)
    /\ UNCHANGED <<time_step, bc_vars, current_vars, heat_vars, status>>

\* Vector<double>::linfty_norm
linfty_norm(v) ==
    LET abs(x) == IF x < 0 THEN -x ELSE x
    IN  CHOOSE m \in {abs(v[d]) : d \in Dofs} : \A d \in Dofs : abs(v[d]) <= m

get_max_temperature ==
    /\ status = "running"
    /\ ret' = linfty_norm(solution_heat)
    /\ cerr' = <<>>
    /\ last_call' = called("get_max_temperature", <<>>)
    /\ UNCHANGED <<time_step, bc_vars, current_vars, heat_vars, status>>

\* get_surface_nodes(nodes): the caller's vector is cleared and filled with the
\* centroids
call_get_surface_nodes ==
    /\ status = "running"
    /\ ret' = get_surface_nodes
    /\ cerr' = <<>>
    /\ last_call' = called("get_surface_nodes", <<>>)
    /\ UNCHANGED <<time_step, bc_vars, current_vars, heat_vars, status>>

\* output_results_current: the potential and its gradient at the vertices of
\* each cell go to the file, or a warning to std::cerr if it cannot be opened
output_results_current(opened) ==
    /\ status = "running"
    /\ ret' = IF opened
              THEN [potential |-> solution_current,
                    field |-> [c \in Cells |-> [v \in LocalDofs |->
                                  get_function_gradients(solution_current, c, v)]]]
              ELSE "void"
    /\ cerr' = IF opened THEN <<>> ELSE <<[msg |-> "WARNING: Couldn't open", face |-> <<>>]>>
    /\ last_call' = called("output_results_current", <<opened>>)
    /\ UNCHANGED <<time_step, bc_vars, current_vars, heat_vars, status>>

\* output_results_heating: the temperature and sigma of it
output_results_heating(opened) ==
    /\ status = "running"
    /\ ret' = IF opened
              THEN [temperature |-> solution_heat,
                    sigma |-> [d \in Dofs |-> sigma(solution_heat[d])]]
              ELSE "void"
    /\ cerr' = IF opened THEN <<>> ELSE <<[msg |-> "WARNING: Couldn't open", face |-> <<>>]>>
    /\ last_call' = called("output_results_heating", <<opened>>)
    /\ UNCHANGED <<time_step, bc_vars, current_vars, heat_vars, status>>

(***************************************************************************)
(* The inputs of the calls.                                                *)
(***************************************************************************)
\* a vector of n distinct values b + 1, ..., b + n
ramp(b, n) == [i \in 1 .. n |-> b + i]

FieldValueInputs ==
    {ramp(b, n) : b \in {10, 20}, n \in {NFaces - 1, NFaces, NFaces + 1}}

UniformInputs == {0, 4}

EmissionCurrentInputs == {ramp(30, NFaces), ramp(40, NFaces), ramp(30, NFaces - 1)}

NottinghamHeatInputs == {ramp(50, NFaces), ramp(50, NFaces - 1)}

TemperatureInputs == {300, 1400}

\* The vacuum side of the interface, in the vacuum mesh's traversal order: a
\* face on each conductor face, then a second face within eps of the first
\* conductor face, a face exactly eps away from the second conductor face, and
\* a face far from all of them.
vacuum_interface ==
    [k \in 1 .. NFaces |->
        [center |-> face_center(copper_interface_faces[k][1], copper_interface_faces[k][2]),
         efield |-> 2 * k]]
    \o <<[center |-> <<face_center(copper_interface_faces[1][1],
                                   copper_interface_faces[1][2])[1] + 1,
                       face_center(copper_interface_faces[1][1],
                                   copper_interface_faces[1][2])[2]>>,
          efield |-> 91],
         [center |-> <<face_center(copper_interface_faces[2][1],
                                   copper_interface_faces[2][2])[1] + eps,
                       face_center(copper_interface_faces[2][1],
                                   copper_interface_faces[2][2])[2]>>,
          efield |-> 92],
         [center |-> <<-100, -100>>, efield |-> 93]>>

reversed(seq) == [k \in 1 .. Len(seq) |-> seq[Len(seq) + 1 - k]]

without(seq, i) == [k \in 1 .. (Len(seq) - 1) |-> IF k < i THEN seq[k] ELSE seq[k + 1]]

\* the vacuum meshes tried: the one above in either traversal order, the one
\* above with one face left out, and the meshes with no face near the conductor
VacuumInputs ==
    {vacuum_interface, reversed(vacuum_interface)}
    \cup {without(vacuum_interface, i) : i \in 1 .. Len(vacuum_interface)}
    \cup {<<>>, <<vacuum_interface[Len(vacuum_interface)]>>}

(***************************************************************************)
(* The object after the constructor, the mesh import and the two setup     *)
(* calls.  Spec drives its boundary data by any sequence of setter calls   *)
(* and of the assemblers' lookups.                                         *)
(***************************************************************************)
\* no assembly loop is running
no_loop == [loop |-> "none", cell |-> 0, other_cell |-> 0]

Init ==
    /\ time_step = 2
    /\ uniform_efield_bc = 1
    /\ interface_map_field = EmptyMap
    /\ interface_map_emission_current = EmptyMap
    /\ interface_map_nottingham = EmptyMap
    /\ system_matrix_current = zero_matrix
    /\ system_rhs_current = zero_vector
    /\ solution_current = zero_vector
    /\ old_solution_current = zero_vector
    /\ system_matrix_heat = zero_matrix
    /\ system_rhs_heat = zero_vector
    /\ solution_heat = [d \in Dofs |-> ambient_temperature]
    /\ old_solution_heat = [d \in Dofs |-> ambient_temperature]
    /\ cerr = <<>>
    /\ status = "running"
    /\ last_call = [op |-> "setup_heating_system", args |-> <<>>, again |-> FALSE]
    /\ ret = "void"
    /\ n_calls = 0
    /\ pc = "set_boundary_data"
    /\ step = 1
    /\ pq = [resistivity_data |-> resistivity_data,
             emission_grid |-> emission_grid,
             nottingham_grid |-> nottingham_grid]
    /\ iterators = no_loop

SetFieldLaplace ==
    /\ \E vacuum \in VacuumInputs : set_electric_field_bc_laplace(vacuum)
    /\ UNCHANGED <<caller_vars, pq, iterators>>

SetFieldValues ==
    /\ \E elfields \in FieldValueInputs, garbage \in GarbageVals :
           set_electric_field_bc_values(elfields, garbage)
    /\ UNCHANGED <<caller_vars, pq, iterators>>

SetFieldUniform ==
    /\ \E c \in UniformInputs : set_electric_field_bc_uniform(c)
    /\ UNCHANGED <<caller_vars, pq, iterators>>

SetEmission ==
    /\ \E ec \in EmissionCurrentInputs, nh \in NottinghamHeatInputs,
          garbage \in GarbageVals :
           set_emission_bc(ec, nh, garbage)
    /\ UNCHANGED <<caller_vars, pq, iterators>>

LookupEmissionCurrent ==
    /\ \E face \in InterfaceFaceSet, t \in TemperatureInputs :
           call_get_emission_current_bc(face, t)
    /\ UNCHANGED <<caller_vars, pq, iterators>>

LookupNottinghamHeat ==
    /\ \E face \in InterfaceFaceSet, t \in TemperatureInputs :
           call_get_nottingham_heat_bc(face, t)
    /\ UNCHANGED <<caller_vars, pq, iterators>>

Next ==
    \/ SetFieldLaplace
    \/ SetFieldValues
    \/ SetFieldUniform
    \/ SetEmission
    \/ LookupEmissionCurrent
    \/ LookupNottinghamHeat

Spec == Init /\ [][Next]_vars

(***************************************************************************)
(* FieldSpec: the caller makes up to MaxCalls calls of the public          *)
(* operations, in any order.                                               *)
(***************************************************************************)
MaxCalls == 3

\* values on the top faces only: a flow straight down to the base
on_top(v) == [k \in 1 .. NFaces |-> IF copper_interface_faces[k][2] = 3 THEN v ELSE 0]

FieldEmissionInputs == {<<on_top(3), on_top(1799)>>}

TimeStepInputs == {4}

FieldUniformInputs == {0, 4}

\* whether the export can write its file
OpenedInputs == {TRUE}

\* (max_iter, tol, pc_ssor)
SolveInputs == {<<0, 0, FALSE>>, <<2, 0, TRUE>>}

\* (cell_indexes, vert_indexes)
VertexInputs == {<<<<0, NCells - 1>>, <<2, 3>>>>}

counted ==
    /\ n_calls < MaxCalls
    /\ n_calls' = n_calls + 1
    /\ UNCHANGED <<pc, step, pq, iterators>>

FieldSetLaplace ==
    /\ counted
    /\ set_electric_field_bc_laplace(vacuum_interface)

FieldSetValues ==
    /\ counted
    /\ set_electric_field_bc_values(ramp(10, NFaces), 0)

FieldSetUniform ==
    /\ counted
    /\ \E c \in FieldUniformInputs : set_electric_field_bc_uniform(c)

FieldSetEmission ==
    /\ counted
    /\ \E in \in FieldEmissionInputs : set_emission_bc(in[1], in[2], 0)

FieldSetTimestep ==
    /\ counted
    /\ \E dt \in TimeStepInputs : set_timestep(dt)

FieldAssembleCurrent ==
    /\ counted
    /\ assemble_current_system

FieldAssembleHeatEuler ==
    /\ counted
    /\ assemble_heating_system_euler_implicit

FieldAssembleHeatCrankNicolson ==
    /\ counted
    /\ assemble_heating_system_crank_nicolson

FieldSolveCurrent ==
    /\ counted
    /\ \E in \in SolveInputs : solve_current(in[1], in[2], in[3])

FieldSolveHeat ==
    /\ counted
    /\ \E in \in SolveInputs : solve_heat(in[1], in[2], in[3])

FieldGetTemperature ==
    /\ counted
    /\ \E in \in VertexInputs : get_temperature(in[1], in[2])

FieldGetCurrent ==
    /\ counted
    /\ \E in \in VertexInputs : get_current(in[1], in[2])

FieldGetMaxTemperature ==
    /\ counted
    /\ get_max_temperature

FieldGetSurfaceNodes ==
    /\ counted
    /\ call_get_surface_nodes

FieldOutputCurrent ==
    /\ counted
    /\ \E opened \in OpenedInputs : output_results_current(opened)

FieldOutputHeating ==
    /\ counted
    /\ \E opened \in OpenedInputs : output_results_heating(opened)

FieldNext ==
    \/ FieldSetLaplace
    \/ FieldSetValues
    \/ FieldSetUniform
    \/ FieldSetEmission
    \/ FieldSetTimestep
    \/ FieldAssembleCurrent
    \/ FieldAssembleHeatEuler
    \/ FieldAssembleHeatCrankNicolson
    \/ FieldSolveCurrent
    \/ FieldSolveHeat
    \/ FieldGetTemperature
    \/ FieldGetCurrent
    \/ FieldGetMaxTemperature
    \/ FieldGetSurfaceNodes
    \/ FieldOutputCurrent
    \/ FieldOutputHeating

FieldSpec == Init /\ [][FieldNext]_vars

(***************************************************************************)
(* DriverSpec: the time-stepping cycle of a driver.  Each step sets the    *)
(* boundary data, assembles and solves the conduction problem, assembles   *)
(* the heat problem with one of the two schemes and solves it.  A driver   *)
(* stops at an exception of a solve.                                       *)
(***************************************************************************)
MaxSteps == 2

\* (max_iter, tol, pc_ssor): a tolerance below the resolution, and a loose one
DriverSolveInputs == {<<2, 0, TRUE>>, <<2, 100, FALSE>>}

\* (emission currents, Nottingham heats)
DriverEmissionInputs == {<<on_top(3), on_top(1799)>>, <<on_top(0), on_top(0)>>}

after_solve(next_pc) == IF "thrown" \in DOMAIN ret' THEN "stopped" ELSE next_pc

DriverSetEmission ==
    /\ pc = "set_boundary_data"
    /\ step <= MaxSteps
    /\ \E in \in DriverEmissionInputs : set_emission_bc(in[1], in[2], 0)
    /\ pc' = "assemble_current"
    /\ UNCHANGED <<n_calls, step, pq, iterators>>

DriverSetFieldUniform ==
    /\ pc = "set_boundary_data"
    /\ step <= MaxSteps
    /\ \E c \in FieldUniformInputs : set_electric_field_bc_uniform(c)
    /\ pc' = "assemble_current"
    /\ UNCHANGED <<n_calls, step, pq, iterators>>

DriverSetFieldValues ==
    /\ pc = "set_boundary_data"
    /\ step <= MaxSteps
    /\ set_electric_field_bc_values(ramp(10, NFaces), 0)
    /\ pc' = "assemble_current"
    /\ UNCHANGED <<n_calls, step, pq, iterators>>

DriverSetFieldLaplace ==
    /\ pc = "set_boundary_data"
    /\ step <= MaxSteps
    /\ set_electric_field_bc_laplace(vacuum_interface)
    /\ pc' = "assemble_current"
    /\ UNCHANGED <<n_calls, step, pq, iterators>>

DriverAssembleCurrent ==
    /\ pc = "assemble_current"
    /\ assemble_current_system
    /\ pc' = "solve_current"
    /\ UNCHANGED <<n_calls, step, pq, iterators>>

DriverSolveCurrent ==
    /\ pc = "solve_current"
    /\ \E in \in DriverSolveInputs : solve_current(in[1], in[2], in[3])
    /\ pc' = after_solve("assemble_heat")
    /\ UNCHANGED <<n_calls, step, pq, iterators>>

DriverAssembleHeatEuler ==
    /\ pc = "assemble_heat"
    /\ assemble_heating_system_euler_implicit
    /\ pc' = "solve_heat"
    /\ UNCHANGED <<n_calls, step, pq, iterators>>

DriverAssembleHeatCrankNicolson ==
    /\ pc = "assemble_heat"
    /\ assemble_heating_system_crank_nicolson
    /\ pc' = "solve_heat"
    /\ UNCHANGED <<n_calls, step, pq, iterators>>

DriverSolveHeat ==
    /\ pc = "solve_heat"
    /\ \E in \in DriverSolveInputs : solve_heat(in[1], in[2], in[3])
    /\ pc' = after_solve("set_boundary_data")
    /\ step' = step + 1
    /\ UNCHANGED <<n_calls, pq, iterators>>

DriverNext ==
    \/ DriverSetEmission
    \/ DriverSetFieldUniform
    \/ DriverSetFieldValues
    \/ DriverSetFieldLaplace
    \/ DriverAssembleCurrent
    \/ DriverSolveCurrent
    \/ DriverAssembleHeatEuler
    \/ DriverAssembleHeatCrankNicolson
    \/ DriverSolveHeat

DriverSpec == Init /\ [][DriverNext]_vars

(***************************************************************************)
(* The loaders of PhysicalQuantities.  A file is what std::ifstream finds  *)
(* at its path: nothing that can be opened, or text.  The text of a grid   *)
(* file is its sequence of lines, a line the sequence of its whitespace-   *)
(* separated tokens, a token a number or a word; the text of a resistivity *)
(* file is the sequence of its tokens.  A std::vector<double> is a         *)
(* function on 0 .. size-1.                                                *)
(***************************************************************************)
number(val) == [num |-> val]

word(str) == [text |-> str]

is_number(token) == "num" \in DOMAIN token

\* std::ifstream infile(filepath) that fails to open
unreadable(filepath) == [filepath |-> filepath, opened |-> FALSE]

text_file(filepath, content) == [filepath |-> filepath, opened |-> TRUE, content |-> content]

\* std::cerr << "Couldn't open \"" << filepath << "\"\n"
couldnt_open(filepath) == <<[msg |-> "Couldn't open", filepath |-> filepath]>>

size(v) == Cardinality(DOMAIN v)

push_back(v, val) == [k \in 0 .. size(v) |-> IF k = size(v) THEN val ELSE v[k]]

\* what the k-th operator>> of a statement "stm >> a >> b >> c" leaves in its
\* variable, which held `before`: the k-th token if the tokens up to it are
\* numbers; 0 in the variable of the first extraction that fails; nothing
\* is written once the stream has failed
extracted(tokens, k, before) ==
    LET good(j) == j <= Len(tokens) /\ is_number(tokens[j])
    IN  IF \A j \in 1 .. k : good(j) THEN tokens[k].num
        ELSE IF \A j \in 1 .. (k - 1) : good(j) THEN 0
        ELSE before

\* line[0] == '%'
starts_with_percent(line) == Len(line) > 0 /\ line[1] = word("%")

\* contains_digit(line) of utility.h
contains_digit(line) == \E k \in 1 .. Len(line) : is_number(line[k])

\* a loop that passes over comment lines only
compact_skipped_comments_only(line) == starts_with_percent(line)

\* the lines that the loop of load_compact_grid_data passes over
compact_skipped(line) == starts_with_percent(line) \/ Len(line) = 0 \/ ~contains_digit(line)

RECURSIVE compact_loop(_, _, _, _)
compact_loop(lines, k, line_counter, grid) ==
    IF k > Len(lines) THEN grid
    ELSE IF compact_skipped(lines[k]) THEN compact_loop(lines, k + 1, line_counter, grid)
    ELSE IF line_counter = 0
    THEN compact_loop(lines, k + 1, line_counter + 1,
                      [grid EXCEPT !.xmin = extracted(lines[k], 1, @),
                                   !.xmax = extracted(lines[k], 2, @),
                                   !.xnum = extracted(lines[k], 3, @)])
    ELSE IF line_counter = 1
    THEN compact_loop(lines, k + 1, line_counter + 1,
                      [grid EXCEPT !.ymin = extracted(lines[k], 1, @),
                                   !.ymax = extracted(lines[k], 2, @),
                                   !.ynum = extracted(lines[k], 3, @)])
    ELSE compact_loop(lines, k + 1, line_counter + 1,
                      [grid EXCEPT !.v = push_back(@, extracted(lines[k], 1, 0))])

\* a loader that empties the vector before it tries to open the file
not_opened_cleared(held, emptied) == emptied

\* the file that could not be opened: the loader returns before the clear(),
\* the grid or the samples stay as held
not_opened(held, emptied) == held

\* load_compact_grid_data(filepath, grid): what it returns, writes to
\* std::cerr and leaves in grid
load_compact_grid_data(file, grid) ==
    IF ~file.opened
    THEN [ret |-> FALSE, cerr |-> couldnt_open(file.filepath), grid |-> not_opened(grid, [grid EXCEPT !.v = <<>>])]
    ELSE [ret |-> TRUE, cerr |-> <<>>,
          grid |-> compact_loop(file.content, 1, 0, [grid EXCEPT !.v = <<>>])]

\* the lines that the loop of load_spreadsheet_grid_data passes over:
\* std::getline has removed the '\n', so line[0] == '\n' never holds
spreadsheet_skipped(line) == starts_with_percent(line)

\* the loop of load_spreadsheet_grid_data; acc holds grid, last_x, last_y,
\* first_line and line_counter; x, y and z are uninitialised before the
\* extraction
RECURSIVE spreadsheet_loop(_, _, _, _)
spreadsheet_loop(lines, k, acc, garbage) ==
    IF k > Len(lines) THEN acc
    ELSE IF spreadsheet_skipped(lines[k]) THEN spreadsheet_loop(lines, k + 1, acc, garbage)
    ELSE LET x == extracted(lines[k], 1, garbage)
             y == extracted(lines[k], 2, garbage)
             z == extracted(lines[k], 3, garbage)
             grid1 == IF acc.first_line
                      THEN [acc.grid EXCEPT !.xmin = x, !.ymin = y]
                      ELSE IF acc.last_x # x
                           THEN [acc.grid EXCEPT !.ynum = acc.line_counter]
                           ELSE acc.grid
         IN  spreadsheet_loop(lines, k + 1,
                              [grid |-> [grid1 EXCEPT !.v = push_back(@, z)],
                               last_x |-> x, last_y |-> y, first_line |-> FALSE,
                               line_counter |-> acc.line_counter + 1],
                              garbage)

\* load_spreadsheet_grid_data(filepath, grid); the quotient by a ynum of zero
\* is undefined
load_spreadsheet_grid_data(file, grid, garbage) ==
    IF ~file.opened
    THEN [ret |-> FALSE, cerr |-> couldnt_open(file.filepath), grid |-> not_opened(grid, [grid EXCEPT !.v = <<>>])]
    ELSE LET acc == spreadsheet_loop(file.content, 1,
                                     [grid |-> [grid EXCEPT !.v = <<>>],
                                      last_x |-> 0, last_y |-> 0, first_line |-> TRUE,
                                      line_counter |-> 0],
                                     garbage)
             xnum == IF acc.grid.ynum = 0 THEN garbage
                     ELSE size(acc.grid.v) \div acc.grid.ynum
         IN  [ret |-> TRUE, cerr |-> <<>>,
              grid |-> [acc.grid EXCEPT !.xmax = acc.last_x, !.ymax = acc.last_y,
                                        !.xnum = xnum]]

\* while (infile >> x >> y) resistivity_data.push_back(std::make_pair(x, y))
RECURSIVE resistivity_loop(_, _, _)
resistivity_loop(tokens, k, data) ==
    IF k + 1 <= Len(tokens) /\ is_number(tokens[k]) /\ is_number(tokens[k + 1])
    THEN resistivity_loop(tokens, k + 2, Append(data, <<tokens[k].num, tokens[k + 1].num>>))
    ELSE data

load_resistivity_data(file) ==
    LET done == IF ~file.opened
                THEN [ret |-> FALSE, cerr |-> couldnt_open(file.filepath),
                      data |-> not_opened(pq.resistivity_data, <<>>)]
                ELSE [ret |-> TRUE, cerr |-> <<>>,
                      data |-> resistivity_loop(file.content, 1, pq.resistivity_data)]
    IN  /\ pq' = [pq EXCEPT !.resistivity_data = done.data]
        /\ ret' = done.ret
        /\ cerr' = done.cerr
        /\ last_call' = called("load_resistivity_data", <<file>>)
        /\ UNCHANGED <<time_step, bc_vars, current_vars, heat_vars, status>>

load_emission_data(file) ==
    LET done == load_compact_grid_data(file, pq.emission_grid)
    IN  /\ pq' = [pq EXCEPT !.emission_grid = done.grid]
        /\ ret' = done.ret
        /\ cerr' = done.cerr
        /\ last_call' = called("load_emission_data", <<file>>)
        /\ UNCHANGED <<time_step, bc_vars, current_vars, heat_vars, status>>

load_nottingham_data(file) ==
    LET done == load_compact_grid_data(file, pq.nottingham_grid)
    IN  /\ pq' = [pq EXCEPT !.nottingham_grid = done.grid]
        /\ ret' = done.ret
        /\ cerr' = done.cerr
        /\ last_call' = called("load_nottingham_data", <<file>>)
        /\ UNCHANGED <<time_step, bc_vars, current_vars, heat_vars, status>>

\* load_spreadsheet_grid_data(filepath, nottingham_grid)
call_load_spreadsheet_grid_data(file, garbage) ==
    LET done == load_spreadsheet_grid_data(file, pq.nottingham_grid, garbage)
    IN  /\ pq' = [pq EXCEPT !.nottingham_grid = done.grid]
        /\ ret' = done.ret
        /\ cerr' = done.cerr
        /\ last_call' = called("load_spreadsheet_grid_data", <<file>>)
        /\ UNCHANGED <<time_step, bc_vars, current_vars, heat_vars, status>>

\* evaluate_resistivity(temperature) on the samples the object holds
call_evaluate_resistivity(temperature) ==
    /\ ret' = linear_interp(temperature, pq.resistivity_data)
    /\ cerr' = <<>>
    /\ last_call' = called("evaluate_resistivity", <<temperature>>)
    /\ UNCHANGED <<time_step, bc_vars, current_vars, heat_vars, status, pq, iterators>>

call_linear_interp(x, data) ==
    /\ ret' = linear_interp(x, data)
    /\ cerr' = <<>>
    /\ last_call' = called("linear_interp", <<x, data>>)
    /\ UNCHANGED <<time_step, bc_vars, current_vars, heat_vars, status, pq, iterators>>

\* a read of grid_data.v outside its elements is undefined behaviour: the
\* call returns a number made of whatever lies there, or the program is
\* stopped by a fault
call_bilinear_interp(x, y, grid_data) ==
    /\ IF bilinear_reads(x, y, grid_data) \subseteq DOMAIN grid_data.v
       THEN ret' = bilinear_interp(x, y, grid_data)
       ELSE ret' \in {[undefined |-> outcome] : outcome \in {"number", "fault"}}
    /\ cerr' = <<>>
    /\ last_call' = called("bilinear_interp", <<x, y, grid_data>>)
    /\ UNCHANGED <<time_step, bc_vars, current_vars, heat_vars, status, pq, iterators>>

(***************************************************************************)
(* InterpSpec: a caller of the two interpolation functions, on tables and  *)
(* grids of its choice.                                                    *)
(***************************************************************************)
\* sample tables with strictly increasing x
SampleTableInputs ==
    {resistivity_data,
     <<<<0, 10>>, <<10, 0>>>>,
     <<<<-5, -3>>, <<0, 7>>, <<1, 7>>, <<4, -20>>>>}

\* the sample abscissae, their neighbours, and points beyond both ends
SampleQueries(data) ==
    UNION {{data[k][1] - 1, data[k][1], data[k][1] + 1} : k \in 1 .. Len(data)}
    \cup {data[1][1] - 3, data[Len(data)][1] + 3,
          (data[1][1] + data[2][1]) \div 2}

wide_grid ==
    [xmin |-> -4, xmax |-> 4, xnum |-> 2, ymin |-> 0, ymax |-> 10, ynum |-> 3,
     v |-> [k \in 0 .. 5 |-> <<7, -3, 5, 1, 9, -8>>[k + 1]]]

tall_grid ==
    [xmin |-> 0, xmax |-> 6, xnum |-> 3, ymin |-> 1, ymax |-> 5, ynum |-> 2,
     v |-> [k \in 0 .. 5 |-> <<1, 2, 3, 5, 8, 13>>[k + 1]]]

GridInputs == {emission_grid, wide_grid, tall_grid}

\* the spacing of a uniform grid
grid_dx(grid_data) == (grid_data.xmax - grid_data.xmin) \div (grid_data.xnum - 1)

grid_dy(grid_data) == (grid_data.ymax - grid_data.ymin) \div (grid_data.ynum - 1)

\* the nodes of the grid, points inside its cells, points outside its extents,
\* and the logarithm of a zero field
GridQueriesX(grid_data) ==
    {grid_data.xmin + i * grid_dx(grid_data) : i \in 0 .. (grid_data.xnum - 1)}
    \cup {grid_data.xmin - 5, grid_data.xmin + 1, grid_data.xmax - 1, grid_data.xmax + 7,
          minus_infinity}

GridQueriesY(grid_data) ==
    {grid_data.ymin + j * grid_dy(grid_data) : j \in 0 .. (grid_data.ynum - 1)}
    \cup {grid_data.ymin - 5, grid_data.ymin + 1, grid_data.ymax - 1, grid_data.ymax + 7}

InterpLinear ==
    /\ \E data \in SampleTableInputs : \E x \in SampleQueries(data) :
           call_linear_interp(x, data)
    /\ UNCHANGED caller_vars

InterpBilinear ==
    /\ \E grid_data \in GridInputs :
           \E x \in GridQueriesX(grid_data), y \in GridQueriesY(grid_data) :
               call_bilinear_interp(x, y, grid_data)
    /\ UNCHANGED caller_vars

InterpNext ==
    \/ InterpLinear
    \/ InterpBilinear

InterpSpec == Init /\ [][InterpNext]_vars

(***************************************************************************)
(* TableSpec: a caller that loads the tables of a PhysicalQuantities       *)
(* object from files and evaluates the resistivity, in any order.          *)
(***************************************************************************)
MaxTableCalls == 3

\* the lines of a compact grid file written from a grid: the two header
\* lines and one value per line
RECURSIVE value_lines(_, _)
value_lines(v, k) ==
    IF k >= size(v) THEN <<>> ELSE <<<<number(v[k])>>>> \o value_lines(v, k + 1)

write_compact(grid) ==
    <<<<number(grid.xmin), number(grid.xmax), number(grid.xnum)>>,
      <<number(grid.ymin), number(grid.ymax), number(grid.ynum)>>>>
    \o value_lines(grid.v, 0)

\* a comment line (with a digit in it), a blank line, a line without digits
comment_line == <<word("%"), word("row"), number(7)>>

blank_line == <<>>

no_digit_line == <<word("values")>>

\* lines with noise[k] put in after the k-th of them, noise[0] before the first
RECURSIVE interleaved(_, _, _)
interleaved(lines, noise, k) ==
    IF k > Len(lines) THEN <<>>
    ELSE (IF k = 0 THEN <<>> ELSE <<lines[k]>>) \o noise[k] \o interleaved(lines, noise, k + 1)

\* where the lines that the loader passes over stand: nowhere, everywhere,
\* between the two header lines, and after the last value
NoiseInputs(n) ==
    {[k \in 0 .. n |-> <<>>],
     [k \in 0 .. n |-> <<comment_line, blank_line, no_digit_line>>],
     [k \in 0 .. n |-> IF k = 1 THEN <<comment_line>> ELSE <<>>],
     [k \in 0 .. n |-> IF k = n THEN <<no_digit_line, blank_line>> ELSE <<>>]}

CompactGridInputs == {wide_grid, tall_grid}

CompactFileInputs ==
    {text_file("grid.dat", interleaved(write_compact(grid), noise, 0)) :
        grid \in CompactGridInputs, noise \in NoiseInputs(2 + 6)}
    \cup {unreadable("missing.dat")}

\* the rows "x y z" of a coordinate-list file written from a grid, y fastest
write_spreadsheet(grid) ==
    [k \in 1 .. (grid.xnum * grid.ynum) |->
        <<number(grid.xmin + ((k - 1) \div grid.ynum) * grid_dx(grid)),
          number(grid.ymin + ((k - 1) % grid.ynum) * grid_dy(grid)),
          number(grid.v[k - 1])>>]

square_grid ==
    [xmin |-> 0, xmax |-> 2, xnum |-> 2, ymin |-> 10, ymax |-> 20, ynum |-> 2,
     v |-> [k \in 0 .. 3 |-> <<4, 3, 2, 1>>[k + 1]]]

SpreadsheetGridInputs == {square_grid, wide_grid, tall_grid, emission_grid}

SpreadsheetFileInputs ==
    {text_file("table.dat", write_spreadsheet(grid)) : grid \in SpreadsheetGridInputs}
    \cup {text_file("table.dat", <<comment_line>> \o write_spreadsheet(tall_grid)),
          unreadable("missing.dat")}

\* the tokens of a resistivity file written from samples
RECURSIVE write_samples(_, _)
write_samples(data, k) ==
    IF k > Len(data) THEN <<>>
    ELSE <<number(data[k][1]), number(data[k][2])>> \o write_samples(data, k + 1)

\* files with strictly increasing x: below, within and above the samples of
\* initialize_with_hc_data()
ResistivityFileInputs ==
    {text_file("rho.dat", write_samples(data, 1)) :
        data \in {<<<<100, 5>>, <<250, 7>>>>, <<<<1500, 8>>, <<1600, 9>>>>}}
    \cup {unreadable("missing.dat")}

table_counted ==
    /\ n_calls < MaxTableCalls
    /\ n_calls' = n_calls + 1
    /\ UNCHANGED <<pc, step, iterators>>

TableLoadResistivity ==
    /\ table_counted
    /\ \E file \in ResistivityFileInputs : load_resistivity_data(file)

TableLoadEmission ==
    /\ table_counted
    /\ \E file \in CompactFileInputs : load_emission_data(file)

TableLoadNottingham ==
    /\ table_counted
    /\ \E file \in CompactFileInputs : load_nottingham_data(file)

TableLoadSpreadsheet ==
    /\ table_counted
    /\ \E file \in SpreadsheetFileInputs, garbage \in GarbageVals :
           call_load_spreadsheet_grid_data(file, garbage)

\* temperatures below, within and above the samples of initialize_with_hc_data()
ResistivityQueryInputs == {150, 300, 1550}

TableEvaluateResistivity ==
    /\ table_counted
    /\ \E temperature \in ResistivityQueryInputs : call_evaluate_resistivity(temperature)

TableNext ==
    \/ TableLoadResistivity
    \/ TableLoadEmission
    \/ TableLoadNottingham
    \/ TableLoadSpreadsheet
    \/ TableEvaluateResistivity

TableSpec == Init /\ [][TableNext]_vars

(***************************************************************************)
(* SchemeSpec: one time step of either heat scheme on an object at rest:   *)
(* the potential and the temperature are those of the step before (each   *)
(* solve has returned what it started from), the interface data are set,   *)
(* and the heat system is as setup_heating_system() left it.               *)
(***************************************************************************)
MaxSchemeCalls == 2

\* a field with one value at the base and another at the interface
layered(bottom, top) == [d \in Dofs |-> IF d > NCells THEN top ELSE bottom]

SchemeTemperatureInputs ==
    {layered(ambient_temperature, ambient_temperature),
     layered(ambient_temperature, ambient_temperature + 2),
     layered(ambient_temperature + 2, ambient_temperature + 2)}

SchemePotentialInputs == {layered(0, 0), layered(0, 2)}

\* Nottingham heats: none, and the two that balance the conduction to a
\* base at ambient_temperature from an interface 2 above it, without and
\* with the Joule heat of the potential layered(0, 2)
SchemeNottinghamInputs == {0, 1800, 1806}

SchemeTimeStepInputs == {2, 4}

SchemeInit ==
    \E temperature \in SchemeTemperatureInputs, potential \in SchemePotentialInputs,
       nottingham_heat \in SchemeNottinghamInputs, dt \in SchemeTimeStepInputs :
        /\ time_step = dt
        /\ uniform_efield_bc = 1
        /\ interface_map_field = EmptyMap
        /\ interface_map_emission_current = values_loop(1, 0, on_top(3), 0, EmptyMap)
        /\ interface_map_nottingham = values_loop(1, 0, on_top(nottingham_heat), 0, EmptyMap)
        /\ system_matrix_current = zero_matrix
        /\ system_rhs_current = zero_vector
        /\ solution_current = potential
        /\ old_solution_current = potential
        /\ system_matrix_heat = zero_matrix
        /\ system_rhs_heat = zero_vector
        /\ solution_heat = temperature
        /\ old_solution_heat = temperature
        /\ cerr = <<>>
        /\ status = "running"
        /\ last_call = [op |-> "set_emission_bc",
                        args |-> <<on_top(3), on_top(nottingham_heat)>>, again |-> FALSE]
        /\ ret = "void"
        /\ n_calls = 0
        /\ pc = "assemble_heat"
        /\ step = 1
        /\ pq = [resistivity_data |-> resistivity_data,
                 emission_grid |-> emission_grid,
                 nottingham_grid |-> nottingham_grid]
        /\ iterators = no_loop

scheme_counted ==
    /\ n_calls < MaxSchemeCalls
    /\ n_calls' = n_calls + 1
    /\ UNCHANGED <<step, pq, iterators>>

SchemeAssembleEuler ==
    /\ scheme_counted
    /\ pc = "assemble_heat"
    /\ assemble_heating_system_euler_implicit
    /\ pc' = "solve_heat"

SchemeAssembleCrankNicolson ==
    /\ scheme_counted
    /\ pc = "assemble_heat"
    /\ assemble_heating_system_crank_nicolson
    /\ pc' = "solve_heat"

SchemeSolveHeat ==
    /\ scheme_counted
    /\ pc = "solve_heat"
    /\ solve_heat(2, 0, TRUE)
    /\ pc' = "assemble_heat"

SchemeNext ==
    \/ SchemeAssembleEuler
    \/ SchemeAssembleCrankNicolson
    \/ SchemeSolveHeat

SchemeSpec == SchemeInit /\ [][SchemeNext]_vars

(***************************************************************************)
(* QuerySpec: the point queries on an object whose last solves have left   *)
(* a potential and a temperature that vary along the interface.            *)
(***************************************************************************)
MaxQueryCalls == 2

\* a field that is base at the bottom and grows by slope from dof to dof
\* along the interface
rising(base, top, slope) ==
    [d \in Dofs |-> IF d > NCells THEN top + slope * (d - NCells - 1) ELSE base]

QueryPotentialInputs == {rising(0, 0, 0), rising(0, 2, 0), rising(0, 1, 1), rising(0, 4, -1)}

QueryTemperatureInputs ==
    {rising(ambient_temperature, ambient_temperature, 0),
     rising(ambient_temperature, ambient_temperature, 2)}

\* (cell_indexes, vert_indexes)
QueryVertexInputs ==
    {<<<<>>, <<>>>>,
     <<<<0>>, <<0>>>>,
     <<<<0, NCells - 1>>, <<2, 3>>>>,
     <<<<NCells - 1, 0, 0>>, <<1, 3, 2>>>>}

QueryInit ==
    \E potential \in QueryPotentialInputs, temperature \in QueryTemperatureInputs :
        /\ time_step = 2
        /\ uniform_efield_bc = 1
        /\ interface_map_field = EmptyMap
        /\ interface_map_emission_current = EmptyMap
        /\ interface_map_nottingham = EmptyMap
        /\ system_matrix_current = zero_matrix
        /\ system_rhs_current = zero_vector
        /\ solution_current = potential
        /\ old_solution_current = potential
        /\ system_matrix_heat = zero_matrix
        /\ system_rhs_heat = zero_vector
        /\ solution_heat = temperature
        /\ old_solution_heat = temperature
        /\ cerr = <<>>
        /\ status = "running"
        /\ last_call = [op |-> "solve_heat", args |-> <<2, 0, TRUE>>, again |-> FALSE]
        /\ ret = returned(1)
        /\ n_calls = 0
        /\ pc = "set_boundary_data"
        /\ step = 1
        /\ pq = [resistivity_data |-> resistivity_data,
                 emission_grid |-> emission_grid,
                 nottingham_grid |-> nottingham_grid]
        /\ iterators = no_loop

query_counted ==
    /\ n_calls < MaxQueryCalls
    /\ n_calls' = n_calls + 1
    /\ UNCHANGED <<pc, step, pq, iterators>>

QueryGetTemperature ==
    /\ query_counted
    /\ \E in \in QueryVertexInputs : get_temperature(in[1], in[2])

QueryGetCurrent ==
    /\ query_counted
    /\ \E in \in QueryVertexInputs : get_current(in[1], in[2])

QueryNext ==
    \/ QueryGetTemperature
    \/ QueryGetCurrent

QuerySpec == QueryInit /\ [][QueryNext]_vars

(***************************************************************************)
(* ConductivitySpec: calls of sigma() and kappa() at temperatures below,   *)
(* in and above the window of the clamp.                                   *)
(***************************************************************************)
ConductivityTemperatureInputs ==
    {50 * k : k \in 0 .. 40} \cup {199, 201, 1399, 1401}

call_sigma(temperature) ==
    /\ ret' = sigma(temperature)
    /\ cerr' = <<>>
    /\ last_call' = called("sigma", <<temperature>>)
    /\ UNCHANGED <<time_step, bc_vars, current_vars, heat_vars, status, pq, iterators>>

call_kappa(temperature) ==
    /\ ret' = kappa(temperature)
    /\ cerr' = <<>>
    /\ last_call' = called("kappa", <<temperature>>)
    /\ UNCHANGED <<time_step, bc_vars, current_vars, heat_vars, status, pq, iterators>>

ConductivitySigma ==
    /\ \E temperature \in ConductivityTemperatureInputs : call_sigma(temperature)
    /\ UNCHANGED caller_vars

ConductivityKappa ==
    /\ \E temperature \in ConductivityTemperatureInputs : call_kappa(temperature)
    /\ UNCHANGED caller_vars

ConductivityNext ==
    \/ ConductivitySigma
    \/ ConductivityKappa

ConductivitySpec == Init /\ [][ConductivityNext]_vars

(***************************************************************************)
(* LoopSpec: the cell loop of the three assemblers, one iteration at a     *)
(* time.  "for (; cell != endc; ++cell, ++other_cell)" runs the iterator   *)
(* of the field being assembled and that of the other field's DoFHandler   *)
(* side by side; both DoFHandlers are attached to the one triangulation.   *)
(* Only the iterators are followed from iteration to iteration: what the   *)
(* bodies add to the system is taken together when the loop is left.       *)
(***************************************************************************)
MaxLoops == 3

\* the DoFHandler of the field an assembler assembles, and the other one
assembled_dof_handler(op) ==
    IF op = "assemble_current_system" THEN "dof_handler_current" ELSE "dof_handler_heat"

other_dof_handler(op) ==
    IF op = "assemble_current_system" THEN "dof_handler_heat" ELSE "dof_handler_current"

\* a second DoFHandler whose first active cell is not that of the first
begin_active_of_other_mesh(dof_handler) ==
    IF dof_handler = "dof_handler_heat" THEN 1 ELSE 0

\* dof_handler.begin_active() and dof_handler.end(), as cell indices of the
\* triangulation, which has no refined cell
begin_active(dof_handler) == 0

end(dof_handler) == NCells

\* the assemblers, by name
AssemblerInputs ==
    {"assemble_current_system", "assemble_heating_system_crank_nicolson",
     "assemble_heating_system_euler_implicit"}

\* the initialisation of the for statement
LoopBegin ==
    /\ status = "running"
    /\ iterators = no_loop
    /\ n_calls < MaxLoops
    /\ \E op \in AssemblerInputs :
           iterators' = [loop |-> op,
                         cell |-> begin_active(assembled_dof_handler(op)),
                         other_cell |-> begin_active(other_dof_handler(op))]
    /\ UNCHANGED <<time_step, bc_vars, current_vars, heat_vars, cerr, status, last_call,
                   ret, caller_vars, pq>>

\* one pass through the body, then "++cell, ++other_cell"
LoopIterate ==
    /\ iterators.loop # "none"
    /\ iterators.cell # end(assembled_dof_handler(iterators.loop))
    /\ iterators' = [iterators EXCEPT !.cell = @ + 1, !.other_cell = @ + 1]
    /\ UNCHANGED <<time_step, bc_vars, current_vars, heat_vars, cerr, status, last_call,
                   ret, caller_vars, pq>>

\* "cell != endc" fails: the boundary values are applied and the assembler
\* returns
LoopEnd ==
    /\ iterators.loop # "none"
    /\ iterators.cell = end(assembled_dof_handler(iterators.loop))
    /\ CASE iterators.loop = "assemble_current_system" -> assemble_current_system
         [] iterators.loop = "assemble_heating_system_crank_nicolson" ->
                assemble_heating_system_crank_nicolson
         [] iterators.loop = "assemble_heating_system_euler_implicit" ->
                assemble_heating_system_euler_implicit
    /\ iterators' = no_loop
    /\ n_calls' = n_calls + 1
    /\ UNCHANGED <<pc, step, pq>>

LoopNext ==
    \/ LoopBegin
    \/ LoopIterate
    \/ LoopEnd

LoopSpec == Init /\ [][LoopNext]_vars

(***************************************************************************)
(* ReadSpec: calls of bilinear_interp on grids of small and of large       *)
(* coordinates, at points inside, on and beyond their bounds.              *)
(***************************************************************************)
\* a grid whose upper bounds lie where the doubles no longer resolve eps
far_grid ==
    [xmin |-> 0, xmax |-> 2 * absorbing, xnum |-> 3,
     ymin |-> absorbing, ymax |-> 3 * absorbing, ynum |-> 2,
     v |-> [k \in 0 .. 5 |-> <<4, 1, 0, 2, 6, 3>>[k + 1]]]

ReadGridInputs == GridInputs \cup {far_grid}

ReadBilinear ==
    /\ \E grid_data \in ReadGridInputs :
           \E x \in GridQueriesX(grid_data), y \in GridQueriesY(grid_data) :
               call_bilinear_interp(x, y, grid_data)
    /\ UNCHANGED caller_vars

ReadNext == ReadBilinear

ReadSpec == Init /\ [][ReadNext]_vars

(***************************************************************************)
(* The claims about the boundary data, checked under Spec.                 *)
(***************************************************************************)
LastOp(op) == last_call.op = op

\* the face whose centroid get_surface_nodes lists at position i
FaceOfNode(i) ==
    CHOOSE face \in InterfaceFaceSet : face_center(face[1], face[2]) = get_surface_nodes[i]

\* C1: right after set_electric_field_bc(c) with a uniform value c, the field
\* lookup get_efield_bc returns c for every interface face, whatever the
\* earlier setters left in the field map.
C1_UniformFieldAtEveryFace ==
    LastOp("set_electric_field_bc_uniform") =>
        \A face \in InterfaceFaceSet : get_efield_bc(face) = returns(last_call.args[1])

\* C2: right after set_electric_field_bc(values), respectively
\* set_emission_bc(currents, heats), with one value per interface face, the
\* map (the two maps) holds exactly the interface faces as keys and each
\* entry holds the value that call supplied for it: nothing of an earlier
\* build survives.
C2_MapsFullyReplaced ==
    /\ (LastOp("set_electric_field_bc_values") /\ Len(last_call.args[1]) = NFaces) =>
           /\ DOMAIN interface_map_field = InterfaceFaceSet
           /\ \A k \in 1 .. NFaces :
                  interface_map_field[copper_interface_faces[k]] = last_call.args[1][k]
    /\ (LastOp("set_emission_bc") /\ Len(last_call.args[1]) = NFaces
            /\ Len(last_call.args[2]) = NFaces) =>
           /\ DOMAIN interface_map_emission_current = InterfaceFaceSet
           /\ DOMAIN interface_map_nottingham = InterfaceFaceSet
           /\ \A k \in 1 .. NFaces :
                  /\ interface_map_emission_current[copper_interface_faces[k]]
                         = last_call.args[1][k]
                  /\ interface_map_nottingham[copper_interface_faces[k]]
                         = last_call.args[2][k]

\* a full rebuild of the emission maps after the field map and the emission
\* maps had been built before (the lookups in between leave them alone)
C2_Witness ==
    /\ LastOp("set_emission_bc")
    /\ last_call.args = <<ramp(40, NFaces), ramp(50, NFaces)>>
    /\ DOMAIN interface_map_field = InterfaceFaceSet

\* C3: with one value per interface face, the lookups return the values in
\* the order in which get_surface_nodes lists the face centroids: the face of
\* the i-th centroid gets values[i] (ec[i] and nh[i] after set_emission_bc).
C3_ValuesInSurfaceNodeOrder ==
    /\ Len(get_surface_nodes) = NFaces
    /\ (LastOp("set_electric_field_bc_values") /\ Len(last_call.args[1]) = NFaces) =>
           \A i \in 1 .. NFaces :
               get_efield_bc(FaceOfNode(i)) = returns(last_call.args[1][i])
    /\ (LastOp("set_emission_bc") /\ Len(last_call.args[1]) = NFaces
            /\ Len(last_call.args[2]) = NFaces) =>
           \A i \in 1 .. NFaces, t \in TemperatureInputs :
               /\ get_emission_current_bc(FaceOfNode(i), t) = returns(last_call.args[1][i])
               /\ get_nottingham_heat_bc(FaceOfNode(i), t) = returns(last_call.args[2][i])

\* per-face field values, all different, are in place and looked up
C3_Witness ==
    /\ LastOp("set_electric_field_bc_values")
    /\ last_call.args[1] = ramp(20, NFaces)
    /\ get_efield_bc(FaceOfNode(NFaces)) = returns(20 + NFaces)
    /\ ~empty(interface_map_emission_current)

\* the indices of the vacuum faces within eps of a conductor face
MatchesOf(face, vacuum) ==
    {i \in 1 .. Len(vacuum) :
        distance2(face_center(face[1], face[2]), vacuum[i].center) < eps * eps}

FirstOf(S) == CHOOSE i \in S : \A j \in S : i <= j

\* C4: right after set_electric_field_bc(laplace), a conductor interface face
\* has an entry exactly if some vacuum face centroid is within eps of its
\* centroid, the entry is the field of the first such vacuum face, each face
\* without a match has one error message and no entry, and the call returns.
C4_LaplaceFirstMatchOrError ==
    LastOp("set_electric_field_bc_laplace") =>
        /\ status = "running"
        /\ DOMAIN interface_map_field \subseteq InterfaceFaceSet
        /\ \A face \in InterfaceFaceSet :
               LET matches == MatchesOf(face, last_call.args[1])
               IN  /\ (face \in DOMAIN interface_map_field) <=> (matches # {})
                   /\ (matches # {}) =>
                          interface_map_field[face] = last_call.args[1][FirstOf(matches)].efield
                   /\ Cardinality({j \in 1 .. Len(cerr) : cerr[j].face = face})
                          = (IF matches = {} THEN 1 ELSE 0)

\* a vacuum mesh with two faces within eps of the first conductor face, and
\* no face within eps of another conductor face
C4_Witness ==
    /\ LastOp("set_electric_field_bc_laplace")
    /\ Cardinality(MatchesOf(copper_interface_faces[1], last_call.args[1])) = 2
    /\ copper_interface_faces[1] \in DOMAIN interface_map_field
    /\ \E face \in InterfaceFaceSet : face \notin DOMAIN interface_map_field
    /\ Len(cerr) = 1

\* the map a lookup consults holds entries, none of them for the face
MissingIn(m, face) == ~empty(m) /\ count(m, face) = 0

\* C5: a lookup whose map is non-empty and has no entry for the face fails
\* its assertion: it returns neither the uniform scalar, nor a value computed
\* from it, nor a default, and the program stops there.
C5_MissingEntryIsAsserted ==
    /\ \A face \in InterfaceFaceSet :
           /\ MissingIn(interface_map_field, face) => ~get_efield_bc(face).ok
           /\ \A t \in TemperatureInputs :
                  /\ MissingIn(interface_map_emission_current, face)
                         => ~get_emission_current_bc(face, t).ok
                  /\ MissingIn(interface_map_nottingham, face)
                         => ~get_nottingham_heat_bc(face, t).ok
    /\ (LastOp("get_emission_current_bc")
            /\ \/ MissingIn(interface_map_emission_current, last_call.args[1])
               \/ /\ empty(interface_map_emission_current)
                  /\ MissingIn(interface_map_field, last_call.args[1]))
           => (status = "aborted" /\ ret = assert_failed)
    /\ (LastOp("get_nottingham_heat_bc")
            /\ \/ MissingIn(interface_map_nottingham, last_call.args[1])
               \/ /\ empty(interface_map_nottingham)
                  /\ MissingIn(interface_map_field, last_call.args[1]))
           => (status = "aborted" /\ ret = assert_failed)
    /\ (status = "aborted") => (ret = assert_failed)

\* a lookup of a face that the Laplace-based setter left without an entry,
\* in a field map that holds other entries
C5_Witness ==
    /\ LastOp("get_nottingham_heat_bc")
    /\ MissingIn(interface_map_field, last_call.args[1])
    /\ empty(interface_map_nottingham)
    /\ status = "aborted"

(***************************************************************************)
(* The claims about the fields.                                            *)
(***************************************************************************)
\* C7: in the driver cycle, when the heat assembly of a step after the first
\* is about to run, the previous-temperature vector it reads,
\* old_solution_heat, equals the temperature the heat solve of the step
\* before produced (solution_heat still holds it: the calls in between leave
\* it alone).
C7_PreviousTemperatureIsLastSolution ==
    (pc = "assemble_heat" /\ step >= 2) => old_solution_heat = solution_heat

\* the members of the object
object_vars == <<time_step, bc_vars, current_vars, heat_vars>>

AssembleOps ==
    {"assemble_current_system", "assemble_heating_system_euler_implicit",
     "assemble_heating_system_crank_nicolson"}

\* C6: a call changes old_solution_current only if it is solve_current, and
\* solve_current leaves in it the solution held when it was called; likewise
\* old_solution_heat and solve_heat.  No setter, assembler, query or export
\* changes either vector.
C6_OldSolutionOnlyBySolve ==
    [][/\ (old_solution_current' # old_solution_current) => last_call'.op = "solve_current"
       /\ (last_call'.op = "solve_current") => old_solution_current' = solution_current
       /\ (old_solution_heat' # old_solution_heat) => last_call'.op = "solve_heat"
       /\ (last_call'.op = "solve_heat") => old_solution_heat' = solution_heat]_vars

\* a solve has replaced the previous-solution vector by a solution that an
\* earlier solve had changed
C6_Witness ==
    /\ LastOp("solve_current")
    /\ old_solution_current # zero_vector
    /\ n_calls = MaxCalls

\* C8: an assembler called a second time in a row, nothing else having been
\* called in between, leaves the matrices and the right-hand sides that its
\* first call left.
C8_AssembleTwiceIsAssembleOnce ==
    [][(last_call'.op \in AssembleOps /\ last_call'.again /\ status' = "running") =>
           /\ system_matrix_current' = system_matrix_current
           /\ system_rhs_current' = system_rhs_current
           /\ system_matrix_heat' = system_matrix_heat
           /\ system_rhs_heat' = system_rhs_heat]_vars

\* C9: set_electric_field_bc(c) called a second time in a row with the same c
\* leaves every member of the object as the first call left it, and the
\* boundary data that the assemblers look up at the interface faces with it;
\* the assemblers read nothing but the members, so each builds the same
\* matrix and right-hand side after the second call as after the first.
C9_UniformSetterIdempotent ==
    [][(last_call'.op = "set_electric_field_bc_uniform" /\ last_call'.again) =>
           /\ object_vars' = object_vars
           /\ \A face \in InterfaceFaceSet, t \in TemperatureInputs :
                  /\ get_emission_current_bc(face, t)' = get_emission_current_bc(face, t)
                  /\ get_nottingham_heat_bc(face, t)' = get_nottingham_heat_bc(face, t)]_vars

\* the uniform setter has been called twice in a row with the same nonzero
\* value, and the maps are empty, so that the assemblers use that value
C9_Witness ==
    /\ LastOp("set_electric_field_bc_uniform")
    /\ last_call.again
    /\ last_call.args[1] # 0
    /\ empty(interface_map_field)
    /\ empty(interface_map_emission_current)
    /\ empty(interface_map_nottingham)

SolveOps == {"solve_current", "solve_heat"}

\* the residual of the solved field is within the tolerance of the last call
LastSolveWithinTol ==
    IF LastOp("solve_current")
    THEN within_tol(system_matrix_current, solution_current, system_rhs_current,
                    last_call.args[2])
    ELSE within_tol(system_matrix_heat, solution_heat, system_rhs_heat, last_call.args[2])

C10_ConvergedWitness ==
    /\ LastOp("solve_current")
    /\ "returned" \in DOMAIN ret
    /\ ret.returned > 0
    /\ solution_current # old_solution_current

(***************************************************************************)
(* The interpolation functions (InterpSpec).  The model computes in        *)
(* fixed-point arithmetic: the rounding of a double is not part of it.     *)
(***************************************************************************)
\* C11: on a table of at least two samples with strictly increasing x,
\* linear_interp(x) is the first sample's y for x <= x_min, the last sample's y
\* for x >= x_max, the sample's y at every sample x, and on every bracket
\* [x_k, x_k+1], both ends included, the linear interpolation between the two
\* samples, so that neighbouring brackets agree where they meet.
C11_LinearInterpClampsAndInterpolates ==
    (last_call.op = "linear_interp") =>
        LET x == last_call.args[1]
            data == last_call.args[2]
            n == Len(data)
        IN  /\ (x <= data[1][1]) => ret = data[1][2]
            /\ (x >= data[n][1]) => ret = data[n][2]
            /\ \A k \in 1 .. n : (x = data[k][1]) => ret = data[k][2]
            /\ \A k \in 1 .. (n - 1) :
                   (data[k][1] <= x /\ x <= data[k + 1][1]) =>
                       ret = data[k][2]
                             + ((data[k + 1][2] - data[k][2]) * (x - data[k][1]))
                               \div (data[k + 1][1] - data[k][1])

\* linear_interp has answered strictly inside a bracket that is not the first
\* one, with a value that is neither of the two sample values
C11_Witness ==
    /\ last_call.op = "linear_interp"
    /\ \E k \in 2 .. (Len(last_call.args[2]) - 1) :
           /\ last_call.args[2][k][1] < last_call.args[1]
           /\ last_call.args[1] < last_call.args[2][k + 1][1]
           /\ ret \notin {last_call.args[2][k][2], last_call.args[2][k + 1][2]}

\* the node (i, j) of a grid
NodeX(grid_data, i) == grid_data.xmin + i * grid_dx(grid_data)

NodeY(grid_data, j) == grid_data.ymin + j * grid_dy(grid_data)

Stored(grid_data, i, j) == grid_data.v[i * grid_data.ynum + j]

Lowest(S) == CHOOSE a \in S : \A b \in S : a <= b

Highest(S) == CHOOSE a \in S : \A b \in S : a >= b

C12_InnerNodeWitness ==
    /\ last_call.op = "bilinear_interp"
    /\ last_call.args[3].xnum > 2
    /\ last_call.args[1] = NodeX(last_call.args[3], 1)
    /\ last_call.args[2] = NodeY(last_call.args[3], 1)

\* the coordinate that selects the cell: x brought into [lo, hi - eps]
Clamped(x, lo, hi) == IF x <= lo THEN lo ELSE IF x >= hi THEN hi - interp_eps ELSE x

GridLoadOps == {"load_emission_data", "load_nottingham_data", "load_spreadsheet_grid_data"}

LoadOps == GridLoadOps \cup {"load_resistivity_data"}

\* the grid that the last grid load wrote to
LoadedGrid ==
    IF last_call.op = "load_emission_data" THEN pq.emission_grid ELSE pq.nottingham_grid

\* C14: after a grid load call that returned success, of the compact or of
\* the coordinate-list layout, the grid has xnum * ynum == values.size().
C14_GridCountsMatchValues ==
    (last_call.op \in GridLoadOps /\ ret = TRUE) =>
        LoadedGrid.xnum * LoadedGrid.ynum = size(LoadedGrid.v)

StrictlyIncreasing(data) ==
    \A k \in 1 .. (Len(data) - 1) : data[k][1] < data[k + 1][1]

\* C15: after a successful load_resistivity_data call on a file whose samples
\* are strictly increasing in x, whatever successful loads came before, the
\* stored samples that linear_interp works on are strictly increasing in x.
C15_SamplesStrictlyIncreasing ==
    (last_call.op = "load_resistivity_data" /\ ret = TRUE) =>
        StrictlyIncreasing(pq.resistivity_data)

\* C16: a load call on a file that cannot be opened returns false with the
\* message on std::cerr, does not abort, and leaves the samples and both grids
\* as they were, so that the resistivity evaluates as before the call.
C16_FailedLoadChangesNothing ==
    [][(last_call'.op \in LoadOps /\ ~last_call'.args[1].opened) =>
           /\ ret' = FALSE
           /\ cerr' = couldnt_open(last_call'.args[1].filepath)
           /\ status' = "running"
           /\ pq' = pq
           /\ \A temperature \in ResistivityQueryInputs :
                  linear_interp(temperature, pq.resistivity_data)'
                      = linear_interp(temperature, pq.resistivity_data)]_vars

\* a load has failed on an object whose samples and grid had been loaded from
\* files before, and they are still held
C16_Witness ==
    /\ last_call.op \in LoadOps
    /\ ~last_call.args[1].opened
    /\ ret = FALSE
    /\ pq.resistivity_data # resistivity_data
    /\ pq.nottingham_grid # nottingham_grid

\* C17: for a coordinate-list file that lists an nx-by-ny grid, nx >= 2, x
\* increasing and y varying fastest, load_spreadsheet_grid_data sets ynum = ny
\* and xnum = nx, takes (xmin, ymin) from the first row and (xmax, ymax) from
\* the last row and stores the z values in file order: the grid it leaves is
\* the grid the file lists.
C17_SpreadsheetGridAsListed ==
    (last_call.op = "load_spreadsheet_grid_data" /\ ret = TRUE) =>
        \A grid \in SpreadsheetGridInputs :
            (last_call.args[1].content = write_spreadsheet(grid)) =>
                pq.nottingham_grid = grid

\* C18: loading a compact-layout file written from a grid, with comment
\* lines, blank lines and lines without digits put in anywhere, leaves a grid
\* with exactly the extents, counts and values of the original, and
\* bilinear_interp answers on it as on the original at every query point.
C18_CompactRoundTrip ==
    (last_call.op \in {"load_emission_data", "load_nottingham_data"} /\ ret = TRUE) =>
        \A grid \in CompactGridInputs, noise \in NoiseInputs(2 + 6) :
            (last_call.args[1].content = interleaved(write_compact(grid), noise, 0)) =>
                /\ LoadedGrid = grid
                /\ \A x \in GridQueriesX(grid), y \in GridQueriesY(grid) :
                       bilinear_interp(x, y, LoadedGrid) = bilinear_interp(x, y, grid)

\* the emission grid has been loaded from a file with a comment line, a blank
\* line and a line without digits before its first header line, and holds a
\* grid of another shape than before
C18_Witness ==
    /\ last_call.op = "load_emission_data"
    /\ ret = TRUE
    /\ Len(last_call.args[1].content) > 3
    /\ last_call.args[1].content[1] = comment_line
    /\ last_call.args[1].content[2] = blank_line
    /\ last_call.args[1].content[3] = no_digit_line
    /\ pq.emission_grid.xnum # emission_grid.xnum

(***************************************************************************)
(* The two heat schemes (SchemeSpec).                                      *)
(***************************************************************************)
\* one implicit-Euler step from the object's state with previous temperature
\* T: T solves the system that the assembly builds
EulerStepFixes(T) ==
    LET a == assembled_heat_euler_implicit(system_matrix_heat, system_rhs_heat, T, T,
                                           solution_current, time_step)
    IN  a.ok /\ within_tol(a.matrix, T, a.rhs, 0)

CrankNicolsonStepFixes(T) ==
    LET a == assembled_heat_crank_nicolson(system_matrix_heat, system_rhs_heat, T, T,
                                           solution_current, old_solution_current,
                                           time_step)
    IN  a.ok /\ within_tol(a.matrix, T, a.rhs, 0)

\* C20: with the current and the previous potential equal, and the same
\* interface data and time step, a temperature vector T is a fixed point of
\* one implicit-Euler step (assembled with previous temperature T, the solve
\* returns T) if and only if it is a fixed point of one Crank-Nicolson step.
C20_SameSteadyState ==
    (old_solution_current = solution_current) =>
        \A T \in SchemeTemperatureInputs : EulerStepFixes(T) <=> CrankNicolsonStepFixes(T)

\* a Crank-Nicolson step with Joule heat and Nottingham heat in balance has
\* been assembled and solved, and has returned the temperature it started
\* from, which is not the ambient one; the step before it was the first
C20_Witness ==
    /\ last_call.op = "solve_heat"
    /\ n_calls = 2
    /\ ret = returned(0)
    /\ solution_heat = old_solution_heat
    /\ solution_heat = layered(ambient_temperature, ambient_temperature + 2)
    /\ solution_current = layered(0, 2)
    /\ system_rhs_heat =
           assembled_heat_crank_nicolson(zero_matrix, zero_vector, solution_heat,
                                         solution_heat, solution_current,
                                         old_solution_current, time_step).rhs
    /\ EulerStepFixes(solution_heat)
    /\ CrankNicolsonStepFixes(solution_heat)

(***************************************************************************)
(* Zero interface data (DriverSpec).                                       *)
(***************************************************************************)
\* the emission current and the electric field that the lookups give are
\* zero at every interface face, whatever the temperature
ZeroInterfaceData ==
    \A face \in InterfaceFaceSet :
        /\ get_efield_bc(face) = returns(0)
        /\ \A t \in TemperatureInputs : get_emission_current_bc(face, t) = returns(0)

\* C19: with zero emission current and zero electric field at every
\* interface face, assemble_current_system() leaves a zero right-hand side,
\* and the potential that solve_current() then returns is zero at every
\* degree of freedom, whatever the temperature field is.
C19_ZeroDataZeroPotential ==
    ZeroInterfaceData =>
        /\ (last_call.op = "assemble_current_system" /\ status = "running") =>
               system_rhs_current = zero_vector
        /\ (last_call.op = "solve_current" /\ "returned" \in DOMAIN ret) =>
               solution_current = zero_vector

(***************************************************************************)
(* The point queries (QuerySpec).                                          *)
(***************************************************************************)
\* the current density at local vertex v of cell c, in units of 1 / gauss_unit
CurrentAtVertex(c, v) ==
    LET temperature == solution_heat[vertex_dof_index(c, v)]
        gradient == function_gradient_at(solution_current, c, vertex_point(v))
    IN  <<sigma(temperature) * (-1) * gradient[1],
          sigma(temperature) * (-1) * gradient[2]>>

\* C21: get_current(cell_indexes, vert_indexes) returns one vector per
\* requested pair, and entry i is the current density at vertex
\* vert_indexes[i] of cell cell_indexes[i]: minus the gradient of the
\* potential at that vertex, times sigma of the temperature at that vertex.
C21_CurrentAtRequestedVertex ==
    (last_call.op = "get_current") =>
        /\ Len(ret) = Len(last_call.args[1])
        /\ \A i \in 1 .. Len(ret) :
               ret[i] = CurrentAtVertex(last_call.args[1][i], last_call.args[2][i])

(***************************************************************************)
(* The Nottingham boundary term of the two heat schemes (SchemeSpec).      *)
(***************************************************************************)
\* what the cell loop adds to the right-hand side at each degree of freedom
\* when cell_rhs holds the Nottingham terms alone
NottinghamRhs(term(_, _, _, _)) ==
    add_to_global(zero_matrix, zero_vector,
                  [c \in Cells |-> [i \in LocalDofs |-> [j \in LocalDofs |-> 0]]],
                  [c \in Cells |-> [i \in LocalDofs |->
                      term(c, i, time_step, nottingham_heat_at(old_solution_heat))]]).rhs

\* C22, as the code has it: for the same time step, interface data and
\* previous temperature, the Nottingham contribution that the Crank-Nicolson
\* assembler adds to the heat right-hand side equals the contribution that
\* the implicit-Euler assembler adds, at every degree of freedom: the factor
\* 2.0 of the Crank-Nicolson term makes up for const_k being half of gamma.
C22_SameBoundaryContribution ==
    \A d \in Dofs :
        NottinghamRhs(nottingham_term_crank_nicolson)[d]
            = NottinghamRhs(nottingham_term_euler_implicit)[d]

\* C22, as stated: the Nottingham contribution of the Crank-Nicolson
\* assembler is twice that of the implicit-Euler assembler, at every degree
\* of freedom.
C22_TwiceBoundaryContribution ==
    \A d \in Dofs :
        NottinghamRhs(nottingham_term_crank_nicolson)[d]
            = 2 * NottinghamRhs(nottingham_term_euler_implicit)[d]

\* the Crank-Nicolson assembler has run on a system as set up, with a
\* Nottingham heat that is not zero, so that its contribution at an
\* interface dof is not zero
C22_Witness ==
    /\ last_call.op = "assemble_heating_system_crank_nicolson"
    /\ n_calls = 1
    /\ status = "running"
    /\ NottinghamRhs(nottingham_term_crank_nicolson)[n_dofs - 1] > 0
    /\ interface_map_nottingham # values_loop(1, 0, on_top(0), 0, EmptyMap)

(***************************************************************************)
(* The computed interface data (Spec).                                     *)
(***************************************************************************)
\* the electric field of face F: its entry in the field map, or the uniform
\* scalar when the field map is empty
FieldAt(F) ==
    IF interface_map_field = EmptyMap THEN uniform_efield_bc ELSE interface_map_field[F]

\* what a lookup that has returned gives, with E the field it computes from
LookupGives(E) ==
    /\ (last_call.op = "get_emission_current_bc" /\ ret.ok) =>
           LET F == last_call.args[1]
               T == last_call.args[2]
           IN  IF interface_map_emission_current = EmptyMap
               THEN ret.val = emission_current(E, T)
               ELSE /\ ret.val = interface_map_emission_current[F]
                    /\ \A t \in TemperatureInputs : get_emission_current_bc(F, t) = ret
    /\ (last_call.op = "get_nottingham_heat_bc" /\ ret.ok) =>
           LET F == last_call.args[1]
               T == last_call.args[2]
           IN  IF interface_map_nottingham = EmptyMap
               THEN ret.val = (-1) * nottingham_de(E, T) * emission_current(E, T)
               ELSE /\ ret.val = interface_map_nottingham[F]
                    /\ \A t \in TemperatureInputs : get_nottingham_heat_bc(F, t) = ret

\* C23, as the code has it: with an empty emission-current map
\* get_emission_current_bc(F, T) returns emission_current(E, T), and with an
\* empty Nottingham map get_nottingham_heat_bc(F, T) returns
\* -nottingham_de(E, T) * emission_current(E, T), where E is the field that
\* get_efield_bc(F) gives: the entry of F in the field map when that map is
\* not empty, the uniform scalar when it is; with a non-empty map the stored
\* value of F is returned, whatever the field and the temperature.
C23_ComputedFromFaceField ==
    (last_call.op \in {"get_emission_current_bc", "get_nottingham_heat_bc"} /\ ret.ok) =>
        LookupGives(FieldAt(last_call.args[1]))

\* C23, as stated: E is the uniform field scalar.
C23_ComputedFromUniformField ==
    (last_call.op \in {"get_emission_current_bc", "get_nottingham_heat_bc"} /\ ret.ok) =>
        LookupGives(uniform_efield_bc)

\* a lookup of the emission current has computed it from the field of its
\* face, stored in the field map, and the uniform scalar gives another value
C23_Witness ==
    /\ last_call.op = "get_emission_current_bc"
    /\ ret.ok
    /\ interface_map_emission_current = EmptyMap
    /\ interface_map_field # EmptyMap
    /\ ret.val = emission_current(interface_map_field[last_call.args[1]], last_call.args[2])
    /\ ret.val # emission_current(uniform_efield_bc, last_call.args[2])

\* a lookup of the Nottingham heat has returned the stored value of its face
C23_StoredWitness ==
    /\ last_call.op = "get_nottingham_heat_bc"
    /\ ret.ok
    /\ interface_map_nottingham # EmptyMap
    /\ ret.val = interface_map_nottingham[last_call.args[1]]
    /\ ret.val # (-1) * nottingham_de(FieldAt(last_call.args[1]), last_call.args[2])
                     * emission_current(FieldAt(last_call.args[1]), last_call.args[2])

(***************************************************************************)
(* The conductivities (ConductivitySpec).                                  *)
(***************************************************************************)
\* C24: sigma(T) and kappa(T) are evaluated at T clamped to [200, 1400]:
\* below 200 they return their value at 200, above 1400 their value at 1400;
\* sigma(T) is 1 / resistivity(clamped T) and kappa(T) is the Lorentz
\* constant times the clamped T times sigma(T).
C24_ClampedToWindow ==
    LET T == last_call.args[1]
        clamped == IF T < 200 THEN 200 ELSE IF T > 1400 THEN 1400 ELSE T
    IN  /\ (last_call.op = "sigma") =>
               /\ ret = sigma_unit \div linear_interp(clamped, resistivity_data)
               /\ (T < 200) => ret = sigma(200)
               /\ (T > 1400) => ret = sigma(1400)
        /\ (last_call.op = "kappa") =>
               /\ ret = lorentz * clamped * sigma(T)
               /\ (T < 200) => ret = kappa(200)
               /\ (T > 1400) => ret = kappa(1400)

\* kappa() has been called below the window, where the value at 200 is not
\* what the temperature as passed in would give
C24_Witness ==
    /\ last_call.op = "kappa"
    /\ last_call.args[1] < 200
    /\ ret = kappa(200)
    /\ ret # lorentz * last_call.args[1] * sigma(200)

\* sigma() has been called above the window, where the resistivity of the
\* table's last sample is used
C24_AboveWitness ==
    /\ last_call.op = "sigma"
    /\ last_call.args[1] > 1400
    /\ ret = sigma(1400)
    /\ ret # sigma(800)

(***************************************************************************)
(* The Dirichlet values at the base (DriverSpec).                          *)
(***************************************************************************)
\* the degrees of freedom on the base boundary
BaseDofs == DOMAIN interpolate_boundary_values(copper_bottom, 0)

\* C25: after every assembly followed by a solve of a field, each degree of
\* freedom on the base boundary holds the Dirichlet value, 0 for the
\* potential and the ambient temperature for the temperature, with either
\* heat scheme, at every step and with any interface data, whether the solve
\* has converged or not.
C25_DirichletValuesAtBase ==
    /\ (last_call.op = "solve_current") =>
           \A d \in BaseDofs : solution_current[d] = 0
    /\ (last_call.op = "solve_heat") =>
           \A d \in BaseDofs : solution_heat[d] = ambient_temperature

\* a heat solve of the second step has iterated and has moved the
\* temperature of the interface away from the ambient one, and the base is
\* at the ambient temperature
C25_Witness ==
    /\ last_call.op = "solve_heat"
    /\ step = 3
    /\ "returned" \in DOMAIN ret
    /\ ret.returned >= 1
    /\ solution_heat[n_dofs - 1] # ambient_temperature
    /\ \A d \in BaseDofs : solution_heat[d] = ambient_temperature

\* a solve of the potential has iterated to a potential that is not zero at
\* the interface, and the base is at zero
C25_PotentialWitness ==
    /\ last_call.op = "solve_current"
    /\ "returned" \in DOMAIN ret
    /\ ret.returned >= 1
    /\ solution_current[n_dofs - 1] # 0
    /\ \A d \in BaseDofs : solution_current[d] = 0

(***************************************************************************)
(* The iterators of the assembly loops (LoopSpec).                         *)
(***************************************************************************)
\* C26: in every iteration of each assembly loop the iterator of the field
\* being assembled and the iterator over the other field's DoFHandler are at
\* the same cell, and the other iterator is never moved beyond its end, the
\* two fields having been set up on the one mesh.
C26_IteratorsSideBySide ==
    (iterators.loop # "none") =>
        /\ iterators.other_cell <= end(other_dof_handler(iterators.loop))
        /\ (iterators.cell # end(assembled_dof_handler(iterators.loop))) =>
               /\ iterators.other_cell = iterators.cell
               /\ iterators.other_cell # end(other_dof_handler(iterators.loop))

\* the loop of a heat assembler is in the iteration of its last cell, after
\* an assembly of the conduction system
C26_Witness ==
    /\ iterators.loop = "assemble_heating_system_crank_nicolson"
    /\ iterators.cell = NCells - 1
    /\ iterators.other_cell = NCells - 1
    /\ last_call.op = "assemble_current_system"

\* a loop has left its last iteration with both iterators at the end
C26_EndWitness ==
    /\ iterators.loop = "assemble_current_system"
    /\ iterators.cell = end("dof_handler_current")
    /\ iterators.other_cell = end("dof_handler_heat")

(***************************************************************************)
(* The emission data and the field setters (Spec).                         *)
(***************************************************************************)
FieldSetterOps ==
    {"set_electric_field_bc_uniform", "set_electric_field_bc_values",
     "set_electric_field_bc_laplace"}

\* C27: once set_emission_bc() has filled the emission-current map and the
\* Nottingham map, a call of any of the three set_electric_field_bc()
\* leaves what get_emission_current_bc() and get_nottingham_heat_bc() return
\* as it was, for every interface face and every temperature.
C27_FieldSettersLeaveEmissionData ==
    [][(/\ last_call'.op \in FieldSetterOps
        /\ interface_map_emission_current # EmptyMap
        /\ interface_map_nottingham # EmptyMap) =>
           \A face \in InterfaceFaceSet, t \in TemperatureInputs :
               /\ get_emission_current_bc(face, t)' = get_emission_current_bc(face, t)
               /\ get_nottingham_heat_bc(face, t)' = get_nottingham_heat_bc(face, t)]_vars

\* a field setter has filled the field map after set_emission_bc() had
\* filled its maps, and the lookups return the stored values, which are not
\* those that the field of the face would give
C27_Witness ==
    /\ last_call.op \in {"set_electric_field_bc_values", "set_electric_field_bc_laplace"}
    /\ status = "running"
    /\ interface_map_field # EmptyMap
    /\ interface_map_emission_current # EmptyMap
    /\ interface_map_nottingham # EmptyMap
    /\ \A face \in InterfaceFaceSet \cap DOMAIN interface_map_field, t \in TemperatureInputs :
           /\ get_emission_current_bc(face, t)
                  = returns(interface_map_emission_current[face])
           /\ get_emission_current_bc(face, t).val
                  # emission_current(interface_map_field[face], t)
    /\ InterfaceFaceSet \cap DOMAIN interface_map_field # {}

(***************************************************************************)
(* A vacuum mesh that matches no conductor face (Spec).                    *)
(***************************************************************************)
\* no centroid of the vacuum side lies within eps of the centroid of any
\* interface face of the conductor
NoMatch(vacuum) ==
    \A face \in InterfaceFaceSet, i \in 1 .. Len(vacuum) :
        distance2(face_center(face[1], face[2]), vacuum[i].center) >= eps * eps

\* C28: when set_electric_field_bc(laplace) finds no matching vacuum
\* centroid for any interface face, it reports an error for every face and
\* leaves the field map empty, so that every field lookup returns the
\* uniform scalar, and the lookup that follows does not fail its assertion.
C28_NoMatchFallsBackToUniform ==
    [][/\ (/\ last_call'.op = "set_electric_field_bc_laplace"
           /\ NoMatch(last_call'.args[1])) =>
              /\ interface_map_field' = EmptyMap
              /\ status' = "running"
              /\ cerr' = [k \in 1 .. NFaces |->
                             [msg |-> "mismatch", face |-> copper_interface_faces[k]]]
              /\ \A face \in InterfaceFaceSet :
                     get_efield_bc(face)' = returns(uniform_efield_bc')
       /\ (/\ last_call.op = "set_electric_field_bc_laplace"
           /\ NoMatch(last_call.args[1])
           /\ \/ /\ last_call'.op = "get_emission_current_bc"
                 /\ interface_map_emission_current = EmptyMap
              \/ /\ last_call'.op = "get_nottingham_heat_bc"
                 /\ interface_map_nottingham = EmptyMap) =>
              /\ ret'.ok
              /\ status' = "running"
              /\ cerr' = <<>>
              /\ (last_call'.op = "get_emission_current_bc") =>
                     ret'.val = emission_current(uniform_efield_bc, last_call'.args[2])]_vars

\* a lookup has computed the emission current from a uniform value that a
\* caller had set, after a vacuum mesh with a face, far from the conductor,
\* had emptied a field map that held values
C28_Witness ==
    /\ last_call.op = "get_emission_current_bc"
    /\ ret = returns(emission_current(uniform_efield_bc, last_call.args[2]))
    /\ uniform_efield_bc # 1
    /\ interface_map_field = EmptyMap
    /\ interface_map_emission_current = EmptyMap
    /\ status = "running"

\* the setter has found no match for a vacuum mesh that is not empty, and
\* has reported every face
C28_SetterWitness ==
    /\ last_call.op = "set_electric_field_bc_laplace"
    /\ last_call.args[1] # <<>>
    /\ NoMatch(last_call.args[1])
    /\ Len(cerr) = NFaces
    /\ interface_map_field = EmptyMap
    /\ uniform_efield_bc # 1

(***************************************************************************)
(* The reads of bilinear_interp (ReadSpec).                                *)
(***************************************************************************)
\* C29: for a grid with xnum >= 2, ynum >= 2, xmin < xmax, ymin < ymax and
\* xnum * ynum stored values, bilinear_interp reads only indexes from 0 to
\* xnum * ynum - 1, for every query point, the points at or beyond any of
\* the four bounds included.
C29_ReadsWithinValues ==
    (last_call.op = "bilinear_interp") =>
        LET x == last_call.args[1]
            y == last_call.args[2]
            grid_data == last_call.args[3]
        IN  (/\ grid_data.xnum >= 2
             /\ grid_data.ynum >= 2
             /\ grid_data.xmin < grid_data.xmax
             /\ grid_data.ymin < grid_data.ymax
             /\ DOMAIN grid_data.v = 0 .. (grid_data.xnum * grid_data.ynum - 1)) =>
                \A index \in bilinear_reads(x, y, grid_data) :
                    0 <= index /\ index < grid_data.xnum * grid_data.ynum

====
